---- MODULE Spec2Model ----
(***************************************************************************)
(* Model of the gambling-simulation engine (src/app/lib/simulation.ts) and *)
(* of the batch loop that drives it (src/app/page.tsx, simulationData).    *)
(*                                                                         *)
(* Number representation.  TLC integers are 32-bit signed, while the       *)
(* program works on JavaScript numbers that hold unsigned 32-bit words and *)
(* unwrapped sums of them.  An integer-valued JavaScript number v is       *)
(* modelled as the pair <<hi, lo>> with v = hi * 65536 + lo, lo in         *)
(* 0..65535 and hi any (signed) integer.  A value of the random source,    *)
(* which the code produces as (unsigned word) / 4294967296, is modelled by *)
(* its numerator in that representation.  Money amounts are multiples of   *)
(* one half for integer bet sizes (every shipped multiplier is a multiple  *)
(* of 0.5) and are modelled in half units, where double arithmetic is      *)
(* exact.                                                                  *)
(***************************************************************************)
EXTENDS Integers, Sequences, FiniteSets, TLC

(***************************************************************************)
(* Bounds of the model.                                                    *)
(***************************************************************************)
MaxDraws == 3
MaxSpins == 2
MaxBet == 2
MaxCalls == 2
MaxIndex == 24

VARIABLES
  gens,            \* SpecRng: the closure state of each generator instance
  outs,            \* SpecRng: the values each instance has returned so far
  genSeed,         \* SpecRng: the seed each instance was created with
  seedCalc,        \* SpecSeed: base seed, loop index and the derived seed
  pick,            \* SpecSampler: the table, the draws and the multipliers returned
  mean,            \* SpecMean: the lines given to calculateMeanLine and what it returned
  settings,        \* the settings in force (the UI state, or the argument)
  rng,             \* the random source of the session in progress
  sess,            \* the locals of the session in progress
  pc,              \* the position of the computation
  result,          \* the line runSimulation returned last
  lines,           \* SpecSession: the lines returned so far
  runCount,        \* UI state
  baseSeed,        \* UI state
  loop,            \* the locals of the simulationData computation
  simulationData,  \* the value of the simulationData memo
  allRuns,         \* history: the line of every run of the batch, by index
  prevRuns,        \* history: displayRuns of the batch before, if smaller, same settings and seed
  dataKey          \* history: the settings and base seed simulationData was computed for

genVars == <<gens, outs, genSeed>>
seedVars == <<seedCalc>>
pickVars == <<pick>>
meanVars == <<mean>>
sessVars == <<settings, rng, sess, pc, result, lines>>
uiVars == <<runCount, baseSeed, loop, simulationData, allRuns, prevRuns, dataKey>>
vars == <<gens, outs, genSeed, seedCalc, pick, mean, settings, rng, sess, pc, result, lines,
          runCount, baseSeed, loop, simulationData, allRuns, prevRuns, dataKey>>

(***************************************************************************)
(* JavaScript integer arithmetic on <<hi, lo>> pairs.  Intermediate values *)
(* are handed on as operator parameters, so that each is evaluated once.   *)
(***************************************************************************)
Half == 256 * 256

Norm(hi, lo) == <<hi + (lo \div Half), lo % Half>>

NumOfInt(n) == Norm(0, n)

NumAdd(a, b) == Norm(a[1] + b[1], a[2] + b[2])

NumLeq(a, b) == a[1] < b[1] \/ (a[1] = b[1] /\ a[2] <= b[2])

\* ToUint32 of ECMAScript: the value modulo 2^32.
ToUint32(a) == <<a[1] % Half, a[2]>>

SignedWord(u, lo) == <<IF u >= 32768 THEN u - Half ELSE u, lo>>

\* ToInt32 of ECMAScript: the value modulo 2^32, read as two's complement.
ToInt32(a) == SignedWord(a[1] % Half, a[2])

RECURSIVE Xor16(_, _)
Xor16(x, y) ==
  IF x = 0 /\ y = 0 THEN 0
  ELSE (((x % 2) + (y % 2)) % 2) + 2 * Xor16(x \div 2, y \div 2)

RECURSIVE Or16(_, _)
Or16(x, y) ==
  IF x = 0 /\ y = 0 THEN 0
  ELSE (IF (x % 2) = 1 \/ (y % 2) = 1 THEN 1 ELSE 0) + 2 * Or16(x \div 2, y \div 2)

XorWords(ua, ub) == ToInt32(<<Xor16(ua[1], ub[1]), Xor16(ua[2], ub[2])>>)

\* JavaScript a ^ b: both operands through ToInt32, the result a signed word.
BitXor(a, b) == XorWords(ToUint32(a), ToUint32(b))

OrWords(ua, ub) == ToInt32(<<Or16(ua[1], ub[1]), Or16(ua[2], ub[2])>>)

\* JavaScript a | b.
BitOr(a, b) == OrWords(ToUint32(a), ToUint32(b))

Pow2(n) == CASE n = 0 -> 1 [] n = 7 -> 128 [] n = 14 -> 16384 [] n = 15 -> 32768

ShiftWord(u, p) == <<u[1] \div p, (u[2] \div p) + (u[1] % p) * (Half \div p)>>

\* JavaScript a >>> n for the shift counts the program uses (0, 7, 14, 15):
\* the operand through ToUint32, the result an unsigned word.
Ushr(a, n) == ShiftWord(ToUint32(a), Pow2(n))

JoinProducts(p1, p0) ==
  NumAdd(<<p1 \div 256, (p1 % 256) * 256>>, <<p0 \div Half, p0 % Half>>)

\* Product of two 16-bit values, below 2^32, without leaving 31 bits.
Mul16(x, y) == JoinProducts((x \div 256) * y, (x % 256) * y)

MulWords(ua, ub) ==
  ToInt32(NumAdd(Mul16(ua[2], ub[2]),
                 <<(Mul16(ua[1], ub[2])[2] + Mul16(ua[2], ub[1])[2]) % Half, 0>>))

\* Math.imul: the low 32 bits of the product, as a signed word.
Imul(a, b) == MulWords(ToUint32(a), ToUint32(b))

(***************************************************************************)
(* createSeededRandom: the Mulberry32 generator.                           *)
(***************************************************************************)
Increment == <<27947, 31221>>      \* 0x6d2b79f5

\* The closure variable t is a JavaScript number that only grows.  It is held as
\* <<top, hi, lo>> with value top * 2^32 + hi * 2^16 + lo and hi, lo in 0..65535.
WideNorm(top, hi, lo) ==
  <<top + ((hi + (lo \div Half)) \div Half), (hi + (lo \div Half)) % Half, lo % Half>>

WideOf(u) == WideNorm(0, u[1], u[2])

WideAdd(t, a) == WideNorm(t[1], t[2] + a[1], t[3] + a[2])

\* The value modulo 2^32, which is all that ^, | and >>> read of a number.
Low32(t) == <<t[2], t[3]>>

\* 2^53 is top = 2^21: from there on a double holds even integers only.
DoubleTop == 2048 * 1024

\* The double nearest to an integer below 2^54: integers below 2^53 and even
\* integers are doubles; an odd integer from 2^53 on lies halfway between two
\* doubles and rounds to the one with the even mantissa, a multiple of 4.
RoundDouble(x) ==
  IF x[1] < DoubleTop \/ x[3] % 2 = 0 THEN x
  ELSE IF x[3] % 4 = 1 THEN WideNorm(x[1], x[2], x[3] - 1)
  ELSE WideNorm(x[1], x[2], x[3] + 1)

\* let t = seed >>> 0
createSeededRandom(seed) == [t |-> WideOf(Ushr(seed, 0)), calls |-> 0]

\* t += 0x6d2b79f5 : a plain number addition, t is not wrapped.
NextT(t) == RoundDouble(WideAdd(t, Increment))

\* let result = Math.imul(t ^ (t >>> 15), 1 | t)
MixFirst(t) == Imul(BitXor(t, Ushr(t, 15)), BitOr(<<0, 1>>, t))

\* result ^= result + Math.imul(result ^ (result >>> 7), 61 | result)
MixSecond(r) == BitXor(r, NumAdd(r, Imul(BitXor(r, Ushr(r, 7)), BitOr(<<0, 61>>, r))))

\* Faulty variant: the final >>> 0 is missing, the numerator stays a signed word.
MixLastSigned(r) == BitXor(r, Ushr(r, 14))

\* ((result ^ (result >>> 14)) >>> 0) / 4294967296, as the numerator.
MixLast(r) == Ushr(BitXor(r, Ushr(r, 14)), 0)

\* The value returned by one call, from the already advanced t.
Mulberry(t) == MixLast(MixSecond(MixFirst(Low32(t))))

DrawWith(g, t2) == [gen |-> [t |-> t2, calls |-> g.calls + 1], value |-> Mulberry(t2)]

\* One call of the closure: the new closure state and the returned value.
DrawFrom(g) == DrawWith(g, NextT(g.t))

(***************************************************************************)
(* Exact arithmetic on naturals of any size (little-endian limbs), used    *)
(* for the sum of squared deviations, which leaves 31 bits.                *)
(***************************************************************************)
Limb == 100 * 100

RECURSIVE BigOfNat(_)
BigOfNat(n) == IF n = 0 THEN <<>> ELSE <<n % Limb>> \o BigOfNat(n \div Limb)

HeadOr0(a) == IF a = <<>> THEN 0 ELSE Head(a)

TailOrEmpty(a) == IF a = <<>> THEN <<>> ELSE Tail(a)

RECURSIVE BigAddC(_, _, _)
BigCarry(a, b, v) == <<v % Limb>> \o BigAddC(TailOrEmpty(a), TailOrEmpty(b), v \div Limb)

BigAddC(a, b, c) ==
  IF a = <<>> /\ b = <<>> THEN (IF c = 0 THEN <<>> ELSE <<c>>)
  ELSE BigCarry(a, b, HeadOr0(a) + HeadOr0(b) + c)

BigAdd(a, b) == BigAddC(a, b, 0)

RECURSIVE BigMulSmall(_, _, _)
BigMulCarry(a, k, v) == <<v % Limb>> \o BigMulSmall(Tail(a), k, v \div Limb)

BigMulSmall(a, k, c) ==
  IF a = <<>> THEN BigOfNat(c) ELSE BigMulCarry(a, k, Head(a) * k + c)

BigShift(r) == IF r = <<>> THEN <<>> ELSE <<0>> \o r

RECURSIVE BigMul(_, _)
BigMul(a, b) ==
  IF b = <<>> \/ a = <<>> THEN <<>>
  ELSE BigAdd(IF Head(b) = 0 THEN <<>> ELSE BigMulSmall(a, Head(b), 0),
              BigShift(BigMul(a, Tail(b))))

Abs(n) == IF n < 0 THEN -n ELSE n

BigSquare(a) == BigMul(a, a)

\* Math.pow(x, 2) of an integer.
Square(n) == BigSquare(BigOfNat(Abs(n)))

Max(a, b) == IF a >= b THEN a ELSE b

Min(a, b) == IF a <= b THEN a ELSE b

(***************************************************************************)
(* Static catalogs.  A probability is the fraction num / den; a slot       *)
(* multiplier is held as twice its value (0.5 is 1, 1 is 2, 1.5 is 3).     *)
(***************************************************************************)
Million == 1000 * 1000

Outcome(p, m2) == [probability |-> [num |-> p, den |-> Million], multiplier |-> m2]

slotProfiles ==
  [ steady |-> << Outcome(336000, 0), Outcome(250000, 1), Outcome(200000, 2),
                  Outcome(100000, 3), Outcome(70000, 4), Outcome(32000, 10),
                  Outcome(11000, 20), Outcome(1000, 40) >>,
    balanced |-> << Outcome(593700, 0), Outcome(100000, 1), Outcome(150000, 2),
                    Outcome(90000, 4), Outcome(49000, 10), Outcome(15000, 20),
                    Outcome(2000, 100), Outcome(300, 200) >>,
    volatile |-> << Outcome(769425, 0), Outcome(100000, 1), Outcome(50000, 2),
                    Outcome(40000, 4), Outcome(20000, 10), Outcome(15000, 20),
                    Outcome(3000, 100), Outcome(2500, 200), Outcome(75, 2000) >> ]

rouletteBets ==
  [ singleNumber |-> [probability |-> [num |-> 1, den |-> 37], multiplier |-> 36],
    split |-> [probability |-> [num |-> 2, den |-> 37], multiplier |-> 18],
    street |-> [probability |-> [num |-> 3, den |-> 37], multiplier |-> 12],
    dozen |-> [probability |-> [num |-> 12, den |-> 37], multiplier |-> 3],
    evenMoney |-> [probability |-> [num |-> 18, den |-> 37], multiplier |-> 2] ]

defaultSettings == [machine |-> "slot", spins |-> 200, betSize |-> 1, profile |-> "balanced"]

ScaledLeq(roll, num, d, g) ==
  NumLeq(Norm(roll[1] * d, roll[2] * d), <<num * (Half \div g), 0>>)

\* roll <= num / den for a roll given by its numerator over 2^32:
\* roll * den <= num * 2^32, with the common factor 64 of 10^6 and 2^32
\* divided out so that both sides stay inside 31 bits.
RollLeq(roll, num, den) ==
  IF den % 64 = 0 THEN ScaledLeq(roll, num, den \div 64, 64) ELSE ScaledLeq(roll, num, den, 1)

(***************************************************************************)
(* Random sources.  A source is either a seeded generator or a tape of     *)
(* arbitrary values; each records how often it was called.                 *)
(***************************************************************************)
SeededSource(seed) == [kind |-> "seeded", gen |-> createSeededRandom(seed)]

TapeSource(tape) == [kind |-> "tape", tape |-> tape, calls |-> 0]

SeededRand(source, d) == [value |-> d.value, source |-> [source EXCEPT !.gen = d.gen]]

\* rand(): the returned value and the source after the call.
Rand(source) ==
  IF source.kind = "seeded"
  THEN SeededRand(source, DrawFrom(source.gen))
  ELSE [value |-> source.tape[source.calls + 1], source |-> [source EXCEPT !.calls = @ + 1]]

Calls(source) == IF source.kind = "seeded" THEN source.gen.calls ELSE source.calls

(***************************************************************************)
(* randomFromDistribution                                                  *)
(***************************************************************************)
RECURSIVE WalkOutcomes(_, _, _, _)
\* Faulty variant: the draw is compared with the entry's own probability.
WalkStepNoCumulative(outcomes, roll, k, c) ==
  IF RollLeq(roll, outcomes[k].probability.num, outcomes[k].probability.den)
  THEN outcomes[k].multiplier
  ELSE WalkOutcomes(outcomes, roll, k + 1, c)

\* cumulative += outcome.probability; if (roll <= cumulative) return outcome.multiplier
WalkStep(outcomes, roll, k, c) ==
  IF RollLeq(roll, c, outcomes[k].probability.den)
  THEN outcomes[k].multiplier
  ELSE WalkOutcomes(outcomes, roll, k + 1, c)

\* Faulty variant: a walk that selects nothing returns 0.
WalkOutcomesDefaultZero(outcomes, roll, k, cumulative) ==
  IF k > Len(outcomes)
  THEN 0
  ELSE WalkStep(outcomes, roll, k, cumulative + outcomes[k].probability.num)

\* The for..of loop from entry k on, and after it
\* outcomes[outcomes.length - 1]?.multiplier ?? 0
WalkOutcomes(outcomes, roll, k, cumulative) ==
  IF k > Len(outcomes)
  THEN (IF Len(outcomes) = 0 THEN 0 ELSE outcomes[Len(outcomes)].multiplier)
  ELSE WalkStep(outcomes, roll, k, cumulative + outcomes[k].probability.num)

Sampled(outcomes, r) ==
  [multiplier |-> WalkOutcomes(outcomes, r.value, 1, 0), source |-> r.source]

randomFromDistribution(outcomes, source) == Sampled(outcomes, Rand(source))

(***************************************************************************)
(* simulateSlot and simulateRoulette.  Amounts (net, peak, trough, points, *)
(* finalNet) are in half units.                                            *)
(***************************************************************************)
\* The sums are taken by halves of the index range: the additions are exact, so
\* their order does not matter, and the evaluation stays shallow for long sequences.
RECURSIVE SumRange(_, _, _)
SumRange(q, lo, hi) ==
  IF lo > hi THEN 0
  ELSE IF lo = hi THEN q[lo]
  ELSE SumRange(q, lo, (lo + hi) \div 2) + SumRange(q, ((lo + hi) \div 2) + 1, hi)

\* points.reduce((acc, value) => acc + value, 0)
SumSeq(q) == SumRange(q, 1, Len(q))

RECURSIVE SquaresRange(_, _, _, _, _)
SquaresRange(q, total, n, lo, hi) ==
  IF lo > hi THEN <<>>
  ELSE IF lo = hi THEN Square(n * q[lo] - total)
  ELSE BigAdd(SquaresRange(q, total, n, lo, (lo + hi) \div 2),
              SquaresRange(q, total, n, ((lo + hi) \div 2) + 1, hi))

\* points.reduce((acc, value) => acc + Math.pow(value - mean, 2), 0) with
\* mean = total / n, as the numerator over n^2 (and 4 for the half units).
SumSquares(q, total, n) == SquaresRange(q, total, n, 1, Len(q))

\* Math.sqrt(variance), held as the variance it is the root of.
Volatility(points, total, n) ==
  [sqrtOf |-> [num |-> SumSquares(points, total, n), den |-> 4 * n * n * n]]

\* Faulty variant: the trajectory starts empty instead of at 0.
slotLocalsNoOrigin ==
  [i |-> 0, net |-> 0, peak |-> 0, trough |-> 0, winSpins |-> 0, loseSpins |-> 0,
   points |-> <<>>]

\* Faulty variant: net is kept from the call before instead of starting at 0.
slotLocalsKept ==
  [i |-> 0, net |-> sess.net, peak |-> 0, trough |-> 0, winSpins |-> 0, loseSpins |-> 0,
   points |-> <<0>>]

slotLocals ==
  [i |-> 0, net |-> 0, peak |-> 0, trough |-> 0, winSpins |-> 0, loseSpins |-> 0,
   points |-> <<0>>]

\* Faulty variant: a breakeven spin is counted neither as a win nor as a loss.
slotPushNoBreakeven(s, change, net, after) ==
  [s |-> [i |-> s.i + 1,
          net |-> net,
          peak |-> Max(s.peak, net),
          trough |-> Min(s.trough, net),
          winSpins |-> IF change > 0 THEN s.winSpins + 1 ELSE s.winSpins,
          loseSpins |-> IF change < 0 THEN s.loseSpins + 1 ELSE s.loseSpins,
          points |-> Append(s.points, net)],
   source |-> after]

\* Faulty variant: a breakeven spin is counted as a win.
slotPushBreakevenWins(s, change, net, after) ==
  [s |-> [i |-> s.i + 1,
          net |-> net,
          peak |-> Max(s.peak, net),
          trough |-> Min(s.trough, net),
          winSpins |-> IF change >= 0 THEN s.winSpins + 1 ELSE s.winSpins,
          loseSpins |-> IF change >= 0 THEN s.loseSpins ELSE s.loseSpins + 1,
          points |-> Append(s.points, net)],
   source |-> after]

\* Faulty variant: peak and trough are updated before net is.
slotPushPeakLags(s, change, net, after) ==
  [s |-> [i |-> s.i + 1,
          net |-> net,
          peak |-> Max(s.peak, s.net),
          trough |-> Min(s.trough, s.net),
          winSpins |-> IF change > 0 THEN s.winSpins + 1 ELSE s.winSpins,
          loseSpins |-> IF change > 0 THEN s.loseSpins ELSE s.loseSpins + 1,
          points |-> Append(s.points, net)],
   source |-> after]

\* if (change > 0) winSpins += 1; else loseSpins += 1; net += change;
\* peak = Math.max(peak, net); trough = Math.min(trough, net); points.push(net)
slotPush(s, change, net, after) ==
  [s |-> [i |-> s.i + 1,
          net |-> net,
          peak |-> Max(s.peak, net),
          trough |-> Min(s.trough, net),
          winSpins |-> IF change > 0 THEN s.winSpins + 1 ELSE s.winSpins,
          loseSpins |-> IF change > 0 THEN s.loseSpins ELSE s.loseSpins + 1,
          points |-> Append(s.points, net)],
   source |-> after]

slotChange(s, change, after) == slotPush(s, change, s.net + change, after)

\* payout = betSize * multiplier; change = payout - betSize
slotPayout(s, betSize, r) == slotChange(s, betSize * r.multiplier - 2 * betSize, r.source)

\* One iteration of the loop of simulateSlot: the locals and the source after it.
slotBody(s, st, source) ==
  slotPayout(s, st.betSize, randomFromDistribution(slotProfiles[st.profile], source))

slotSummary(s, n, total) ==
  [points |-> s.points,
   summary |-> [totalWinSpins |-> s.winSpins,
                totalLosingSpins |-> s.loseSpins,
                finalNet |-> s.net,
                peak |-> s.peak,
                trough |-> s.trough,
                volatility |-> Volatility(s.points, total, n)]]

\* Faulty variant: mean and variance are taken over the number of spins.
slotResultPerSpin(s) == slotSummary(s, Len(s.points) - 1, SumSeq(s.points))

\* mean = sum / points.length; variance = (sum of squares) / points.length
slotResult(s) == slotSummary(s, Len(s.points), SumSeq(s.points))

rouletteLocals ==
  [i |-> 0, net |-> 0, peak |-> 0, trough |-> 0, winSpins |-> 0, loseSpins |-> 0,
   points |-> <<0>>]

\* Faulty variant: a losing spin is not counted.
roulettePushLossUncounted(s, win, net, after) ==
  [s |-> [i |-> s.i + 1,
          net |-> net,
          peak |-> Max(s.peak, net),
          trough |-> Min(s.trough, net),
          winSpins |-> IF win THEN s.winSpins + 1 ELSE s.winSpins,
          loseSpins |-> s.loseSpins,
          points |-> Append(s.points, net)],
   source |-> after]

roulettePush(s, win, net, after) ==
  [s |-> [i |-> s.i + 1,
          net |-> net,
          peak |-> Max(s.peak, net),
          trough |-> Min(s.trough, net),
          winSpins |-> IF win THEN s.winSpins + 1 ELSE s.winSpins,
          loseSpins |-> IF win THEN s.loseSpins ELSE s.loseSpins + 1,
          points |-> Append(s.points, net)],
   source |-> after]

\* Faulty variant: a win adds the whole payout, the stake is not taken off.
rouletteChangeFullPayout(s, betSize, multiplier, win, after) ==
  roulettePush(s, win,
               s.net + (IF win THEN 2 * betSize * multiplier ELSE -(2 * betSize)),
               after)

\* change = win ? betSize * (multiplier - 1) : -betSize
rouletteChange(s, betSize, multiplier, win, after) ==
  roulettePush(s, win,
               s.net + (IF win THEN 2 * betSize * (multiplier - 1) ELSE -(2 * betSize)),
               after)

\* win = roll <= betDefinition.probability
rouletteWin(s, betSize, betDefinition, r) ==
  rouletteChange(s, betSize, betDefinition.multiplier,
                 RollLeq(r.value, betDefinition.probability.num, betDefinition.probability.den),
                 r.source)

\* Faulty variant: the spin reads the value the source would return next, without
\* calling the source.
rouletteBodyPeek(s, st, source) ==
  rouletteWin(s, st.betSize, rouletteBets[st.bet],
              [value |-> Rand(source).value, source |-> source])

\* One iteration of the loop of simulateRoulette.
rouletteBody(s, st, source) ==
  rouletteWin(s, st.betSize, rouletteBets[st.bet], Rand(source))

rouletteSummary(s, n, total) ==
  [points |-> s.points,
   summary |-> [totalWinSpins |-> s.winSpins,
                totalLosingSpins |-> s.loseSpins,
                finalNet |-> s.net,
                peak |-> s.peak,
                trough |-> s.trough,
                volatility |-> Volatility(s.points, total, n)]]

rouletteResult(s) == rouletteSummary(s, Len(s.points), SumSeq(s.points))

(***************************************************************************)
(* Batch loop helpers (src/app/page.tsx).                                  *)
(***************************************************************************)
MAX_DISPLAY_RUNS == 100

MAX_RUNS == 1000

SLIDER_STEPS == 100

SEED_STEP == 9973

BASELINE_SEED == NumOfInt(9645231)

PaletteSize == Len(<<"#7F5AF0", "#2CB67D", "#F25F4C", "#FF8906", "#3DA9FC", "#EF4565",
                    "#7B6CF6", "#52A7FA">>)

\* The position in the palette stands for the colour.
colorForIndex(index) == index % PaletteSize

\* Faulty variant: the sum is not brought back to 32 bits.
seedForIndexNoWrap(base, index) == NumAdd(base, NumOfInt(index * SEED_STEP))

seedForIndex(base, index) == Ushr(NumAdd(base, NumOfInt(index * SEED_STEP)), 0)

\* The table the slider memo computes from Math.round(Math.exp(step / 100 * Math.log(1000))),
\* values[step] = min(1000, max(values[step - 1] + 1, raw)), values[100] = 1000.
sliderRunValues ==
  << 1, 2, 3, 4, 5, 6, 7, 8, 9, 10, 11, 12, 13, 14, 15, 16, 17, 18, 19, 20,
     21, 22, 23, 24, 25, 26, 27, 28, 29, 30, 31, 32, 33, 34, 35, 36, 37, 38, 39, 40,
     41, 42, 43, 44, 45, 46, 47, 48, 49, 50, 51, 52, 53, 54, 55, 56, 57, 58, 59, 60,
     63, 68, 72, 78, 83, 89, 95, 102, 110, 117, 126, 135, 145, 155, 166, 178, 191, 204,
     219, 234, 251, 269, 288, 309, 331, 355, 380, 407, 437, 468, 501, 537, 575, 617,
     661, 708, 759, 813, 871, 933, 1000 >>

RECURSIVE GCD(_, _)
GCD(a, b) == IF b = 0 THEN a ELSE GCD(b, a % b)

Reduce(a, b, g) == [num |-> a \div g, den |-> b \div g]

\* a / b for b > 0, as the fraction in lowest terms.
Quot(a, b) == Reduce(a, b, GCD(Abs(a), b))

\* Faulty variant: the || 0 is missing; den 0 stands for NaN and for Infinity.
RateUnguarded(count, denominator) ==
  IF denominator = 0
  THEN [num |-> IF count = 0 THEN 0 ELSE 1, den |-> 0]
  ELSE Quot(100 * count, denominator)

\* (count / denominator) * 100 || 0 : 0 / 0 is NaN, and NaN || 0 is 0; a fraction
\* with den 0 stands for Infinity, which || 0 leaves alone.
RateOrZero(count, denominator) ==
  IF denominator = 0
  THEN (IF count = 0 THEN Quot(0, 1) ELSE [num |-> 1, den |-> 0])
  ELSE Quot(100 * count, denominator)

(***************************************************************************)
(* calculateMeanLine (src/app/lib/simulation.ts).                          *)
(***************************************************************************)
RECURSIVE MaxPoints(_, _)
\* Math.max(...lines.map((line) => line.points.length)), over the first k lines
MaxPoints(given, k) ==
  IF k = 1 THEN Len(given[1].points)
  ELSE Max(MaxPoints(given, k - 1), Len(given[k].points))

\* Faulty variant: a line without an index i is counted, with the value 0.
MeanAddAll(acc, line, i) ==
  IF i <= Len(line.points)
  THEN [sum |-> acc.sum + line.points[i], count |-> acc.count + 1]
  ELSE [sum |-> acc.sum, count |-> acc.count + 1]

\* if (line.points[i] !== undefined) { sum += line.points[i]; count += 1 }
MeanAdd(acc, line, i) ==
  IF i <= Len(line.points)
  THEN [sum |-> acc.sum + line.points[i], count |-> acc.count + 1]
  ELSE acc

RECURSIVE MeanLoop(_, _, _)
\* for (const line of lines), over the first k lines, from sum = 0 and count = 0
MeanLoop(given, i, k) ==
  IF k = 0 THEN [sum |-> 0, count |-> 0]
  ELSE MeanAdd(MeanLoop(given, i, k - 1), given[k], i)

\* meanPoints.push(count > 0 ? sum / count : 0)
MeanPush(acc) == IF acc.count > 0 THEN Quot(acc.sum, acc.count) ELSE Quot(0, 1)

MeanPoints(given, maxPoints) ==
  [i \in 1 .. maxPoints |-> MeanPush(MeanLoop(given, i, Len(given)))]

calculateMeanLine(given) ==
  IF Len(given) = 0 THEN <<>> ELSE MeanPoints(given, MaxPoints(given, Len(given)))

(***************************************************************************)
(* Values of the parts a specification does not use.                       *)
(***************************************************************************)
NoGen == [t |-> <<0, 0, 0>>, calls |-> -1]

NoLine == [points |-> <<>>, summary |-> <<>>]

NoSess ==
  [i |-> 0, net |-> 0, peak |-> 0, trough |-> 0, winSpins |-> 0, loseSpins |-> 0,
   points |-> <<>>]

NoLoop ==
  [totalRuns |-> 0, accumulator |-> <<>>, displayRuns |-> <<>>, aggregateFinalNet |-> 0,
   tailFinalSum |-> 0, tailWinSpins |-> 0, tailLossSpins |-> 0, index |-> 0]

NoData ==
  [displayRuns |-> <<>>, meanLine |-> <<>>, tailSummary |-> <<>>, totalRuns |-> 0,
   totalFinal |-> 0]

RngIdle ==
  /\ gens = [g \in 1 .. 2 |-> NoGen]
  /\ outs = [g \in 1 .. 2 |-> <<>>]
  /\ genSeed = [g \in 1 .. 2 |-> <<0, 0>>]

SeedIdle == seedCalc = [base |-> <<0, 0>>, index |-> 0, seed |-> <<0, 0>>]

NoPick == [outcomes |-> <<>>, rolls |-> <<>>, multipliers |-> <<>>]

PickIdle == pick = NoPick

NoMean == [lines |-> <<>>, called |-> FALSE, returned |-> <<>>]

MeanIdle == mean = NoMean

SessIdle ==
  /\ settings = defaultSettings
  /\ rng = TapeSource(<<>>)
  /\ sess = NoSess
  /\ pc = "off"
  /\ result = NoLine
  /\ lines = <<>>

UiIdle ==
  /\ runCount = 1
  /\ baseSeed = BASELINE_SEED
  /\ loop = NoLoop
  /\ simulationData = NoData
  /\ allRuns = <<>>
  /\ prevRuns = <<>>
  /\ dataKey = <<>>

(***************************************************************************)
(* SpecRng: generator instances created and drawn in any order.            *)
(***************************************************************************)
GenIds == 1 .. 2

SeedInputs ==
  { <<0, 0>>, <<0, 1>>, BASELINE_SEED, <<65535, 65535>>, <<65536, 1>>, <<-1, 65535>> }

InitRng == RngIdle /\ SeedIdle /\ PickIdle /\ MeanIdle /\ SessIdle /\ UiIdle

CreateGen(g, seed) ==
  /\ gens' = [gens EXCEPT ![g] = createSeededRandom(seed)]
  /\ outs' = [outs EXCEPT ![g] = <<>>]
  /\ genSeed' = [genSeed EXCEPT ![g] = seed]
  /\ UNCHANGED <<seedVars, pickVars, meanVars, sessVars, uiVars>>

TakeDraw(g, d) ==
  /\ gens' = [gens EXCEPT ![g] = d.gen]
  /\ outs' = [outs EXCEPT ![g] = Append(@, d.value)]

\* Faulty variant: t is one variable shared by all closures instead of one per closure.
DrawGenShared(g) ==
  /\ gens[g].calls >= 0
  /\ Len(outs[g]) < MaxDraws
  /\ gens' = [gens EXCEPT ![1] = DrawFrom(gens[1]).gen]
  /\ outs' = [outs EXCEPT ![g] = Append(@, DrawFrom(gens[1]).value)]
  /\ UNCHANGED <<genSeed, seedVars, pickVars, meanVars, sessVars, uiVars>>

\* One call of generator g; outs[g] holds the values of its latest calls.
DrawGen(g) ==
  /\ gens[g].calls >= 0
  /\ Len(outs[g]) < MaxDraws
  /\ TakeDraw(g, DrawFrom(gens[g]))
  /\ UNCHANGED <<genSeed, seedVars, pickVars, meanVars, sessVars, uiVars>>

NextRng ==
  \/ \E g \in GenIds, seed \in SeedInputs : CreateGen(g, seed)
  \/ \E g \in GenIds : DrawGen(g)

SpecRng == InitRng /\ [][NextRng]_vars

(***************************************************************************)
(* SpecRngLong: one generator drawn a long time.  Runs of calls whose      *)
(* values the caller drops are taken in one step of 16^j calls while t     *)
(* stays below 2^53, where every addition is exact and n calls add         *)
(* n * 0x6d2b79f5 to t; the calls from there on are taken one by one.      *)
(***************************************************************************)
LongSeedInputs == { <<0, 0>>, <<0, 1>>, BASELINE_SEED, <<65535, 65535>> }

SkipInputs == {1, 16, 256, 4096, 65536}

InitRngLong ==
  /\ SeedIdle /\ PickIdle /\ MeanIdle /\ SessIdle /\ UiIdle
  /\ \E seed \in LongSeedInputs :
       /\ gens = [g \in GenIds |-> IF g = 1 THEN createSeededRandom(seed) ELSE NoGen]
       /\ genSeed = [g \in GenIds |-> IF g = 1 THEN seed ELSE <<0, 0>>]
  /\ outs = [g \in GenIds |-> <<>>]

\* t after n calls from t, for n <= 65536, when it is below 2^53.
SkippedT(t, n) == WideNorm(t[1], t[2] + n * Increment[1], t[3] + n * Increment[2])

\* n calls of generator g in a row, the values dropped; n is the largest of the
\* step sizes that keeps t below 2^53.
SkipDraws(g, n) ==
  /\ gens[g].calls >= 0
  /\ SkippedT(gens[g].t, n)[1] < DoubleTop
  /\ IF n = 65536 THEN TRUE ELSE SkippedT(gens[g].t, 16 * n)[1] >= DoubleTop
  /\ gens' = [gens EXCEPT ![g] = [t |-> SkippedT(gens[g].t, n), calls |-> gens[g].calls + n]]
  /\ outs' = [outs EXCEPT ![g] = <<>>]
  /\ UNCHANGED <<genSeed, seedVars, pickVars, meanVars, sessVars, uiVars>>

\* The calls that take t to 2^53 and beyond, one by one.
DrawLate(g) ==
  /\ WideAdd(gens[g].t, Increment)[1] >= DoubleTop
  /\ DrawGen(g)

NextRngLong ==
  \/ \E n \in SkipInputs : SkipDraws(1, n)
  \/ DrawLate(1)

SpecRngLong == InitRngLong /\ [][NextRngLong]_vars

(***************************************************************************)
(* SpecSeed: the seed derivation of the batch loop, for any base seed.     *)
(***************************************************************************)
BaseInputs ==
  { <<0, 0>>, BASELINE_SEED, <<65535, 65535>>, <<65535, 60000>>, <<65400, 0>>, <<-1, 65535>> }

InitSeed ==
  /\ RngIdle /\ PickIdle /\ MeanIdle /\ SessIdle /\ UiIdle
  /\ \E base \in BaseInputs :
       seedCalc = [base |-> base, index |-> 0, seed |-> seedForIndex(base, 0)]

\* for (let index = 0; index < totalRuns; index++) { const seed = seedForIndex(baseSeed, index)
SeedLoopStep ==
  /\ seedCalc.index < MaxIndex
  /\ seedCalc' = [seedCalc EXCEPT !.index = @ + 1,
                                  !.seed = seedForIndex(seedCalc.base, seedCalc.index + 1)]
  /\ UNCHANGED <<genVars, pickVars, meanVars, sessVars, uiVars>>

NextSeed == SeedLoopStep

SpecSeed == InitSeed /\ [][NextSeed]_vars

(***************************************************************************)
(* SpecSampler: randomFromDistribution called on a table with any draw.    *)
(* Besides the catalog's tables: the empty table, a table whose            *)
(* probabilities are quarters and sum to 0.75, and a table that starts     *)
(* with an entry of probability 0.                                         *)
(***************************************************************************)
TableInputs ==
  { slotProfiles.steady, slotProfiles.balanced, slotProfiles.volatile,
    <<>>,
    << Outcome(250000, 1), Outcome(250000, 4), Outcome(250000, 10) >>,
    << Outcome(0, 14), Outcome(500000, 2), Outcome(500000, 0) >> }

\* 0, 0.25, about 0.3, 0.5, about 0.7, 0.75, just above 0.75, about 0.9, the largest
\* value below 1, and 1.
RollInputs ==
  { <<0, 0>>, <<16384, 0>>, <<19660, 0>>, <<32768, 0>>, <<45875, 0>>, <<49152, 0>>,
    <<49152, 1>>, <<58982, 0>>, <<65535, 65535>>, <<65536, 0>> }

InitSampler ==
  /\ RngIdle /\ SeedIdle /\ MeanIdle /\ SessIdle /\ UiIdle
  /\ \E outcomes \in TableInputs : pick = [outcomes |-> outcomes, rolls |-> <<>>,
                                            multipliers |-> <<>>]

\* One call with a source whose next value is roll.
SampleCall(roll) ==
  /\ Len(pick.rolls) < MaxCalls
  /\ pick' = [pick EXCEPT
               !.rolls = Append(@, roll),
               !.multipliers =
                 Append(@, randomFromDistribution(pick.outcomes, TapeSource(<<roll>>)).multiplier)]
  /\ UNCHANGED <<genVars, seedVars, meanVars, sessVars, uiVars>>

NextSampler == \E roll \in RollInputs : SampleCall(roll)

SpecSampler == InitSampler /\ [][NextSampler]_vars

(***************************************************************************)
(* The steps of one runSimulation call, shared by SpecSession and Spec.    *)
(***************************************************************************)
\* What catalog[key] is for a key given at run time: an entry of the catalog, a
\* member inherited from Object.prototype (an object without the entry's fields,
\* and not iterable), or undefined.
InheritedKeys == {"constructor"}

KeyKind(catalog, key) ==
  IF key \in DOMAIN catalog THEN "own"
  ELSE IF key \in InheritedKeys THEN "inherited" ELSE "undefined"

\* A TypeError leaves the call after the rand() of the iteration.
ThrowAfter(r) ==
  /\ rng' = r.source
  /\ pc' = "threw"
  /\ UNCHANGED sess

\* roll <= betDefinition.probability with probability undefined is false: a loss.
rouletteMiss(s, betSize, r) == rouletteChange(s, betSize, 0, FALSE, r.source)

\* runSimulation dispatches on settings.machine; the callee initialises its locals.
EnterRunSimulation(source) ==
  /\ rng' = source
  /\ sess' = IF settings.machine = "slot" THEN slotLocals ELSE rouletteLocals
  /\ pc' = IF settings.machine = "slot" THEN "slot" ELSE "roulette"

StepTo(b) ==
  /\ sess' = b.s
  /\ rng' = b.source

\* Faulty variant: points is one array shared by all calls, so that a push is
\* seen in every line returned before.
simulateSlotSpinShared ==
  /\ pc = "slot"
  /\ sess.i < settings.spins
  /\ IF KeyKind(slotProfiles, settings.profile) = "own"
     THEN /\ StepTo(slotBody(sess, settings, rng))
          /\ UNCHANGED pc
          /\ lines' = [k \in DOMAIN lines |->
                         [lines[k] EXCEPT !.points = Append(@, sess'.net)]]
     ELSE ThrowAfter(Rand(rng)) /\ UNCHANGED lines
  /\ UNCHANGED <<genVars, seedVars, pickVars, meanVars, settings, result, uiVars>>

\* One iteration of the loop of simulateSlot; for (const outcome of outcomes)
\* throws a TypeError when slotProfiles[profile] is not an array.
simulateSlotSpin ==
  /\ pc = "slot"
  /\ sess.i < settings.spins
  /\ IF KeyKind(slotProfiles, settings.profile) = "own"
     THEN StepTo(slotBody(sess, settings, rng)) /\ UNCHANGED pc
     ELSE ThrowAfter(Rand(rng))
  /\ UNCHANGED <<genVars, seedVars, pickVars, meanVars, settings, result, lines, uiVars>>

simulateSlotReturn ==
  /\ pc = "slot"
  /\ ~(sess.i < settings.spins)
  /\ result' = slotResult(sess)
  /\ pc' = "returned"
  /\ UNCHANGED <<genVars, seedVars, pickVars, meanVars, settings, rng, sess, lines, uiVars>>

\* One iteration of the loop of simulateRoulette; betDefinition.probability
\* throws a TypeError when rouletteBets[bet] is undefined.
simulateRouletteSpin ==
  /\ pc = "roulette"
  /\ sess.i < settings.spins
  /\ CASE KeyKind(rouletteBets, settings.bet) = "own" ->
            StepTo(rouletteBody(sess, settings, rng)) /\ UNCHANGED pc
       [] KeyKind(rouletteBets, settings.bet) = "inherited" ->
            StepTo(rouletteMiss(sess, settings.betSize, Rand(rng))) /\ UNCHANGED pc
       [] OTHER -> ThrowAfter(Rand(rng))
  /\ UNCHANGED <<genVars, seedVars, pickVars, meanVars, settings, result, lines, uiVars>>

simulateRouletteReturn ==
  /\ pc = "roulette"
  /\ ~(sess.i < settings.spins)
  /\ result' = rouletteResult(sess)
  /\ pc' = "returned"
  /\ UNCHANGED <<genVars, seedVars, pickVars, meanVars, settings, rng, sess, lines, uiVars>>

(***************************************************************************)
(* SpecSession: runSimulation called repeatedly with the same settings and *)
(* a random source that replays the same arbitrary values.                 *)
(***************************************************************************)
SlotProfileInputs == {"steady", "balanced", "volatile"}

RouletteBetInputs == {"singleNumber", "split", "street", "dozen", "evenMoney"}

SettingsInputs ==
  [machine : {"slot"}, spins : 0 .. MaxSpins, betSize : 1 .. MaxBet, profile : SlotProfileInputs]
  \cup
  [machine : {"roulette"}, spins : 0 .. MaxSpins, betSize : 1 .. MaxBet, bet : RouletteBetInputs]

\* Settings whose key is not in the catalog, as a caller outside the type checker
\* can pass them.
UnknownKeySettings ==
  [machine : {"slot"}, spins : 0 .. MaxSpins, betSize : 1 .. MaxBet,
   profile : {"unknown", "constructor"}]
  \cup
  [machine : {"roulette"}, spins : 0 .. MaxSpins, betSize : 1 .. MaxBet,
   bet : {"unknown", "constructor"}]

\* Values of an arbitrary source: 0, about 0.3, 0.5, about 0.7 and 0.9, and the largest
\* value below 1.
DrawInputs ==
  { <<0, 0>>, <<19660, 0>>, <<32768, 0>>, <<45875, 0>>, <<58982, 0>>, <<65535, 65535>> }

InitSession ==
  /\ RngIdle /\ SeedIdle /\ PickIdle /\ MeanIdle /\ UiIdle
  /\ settings \in SettingsInputs \cup UnknownKeySettings
  /\ \E tape \in [1 .. MaxSpins -> DrawInputs] : rng = TapeSource(tape)
  /\ sess = NoSess
  /\ pc = "idle"
  /\ result = NoLine
  /\ lines = <<>>

CallRunSimulation ==
  /\ pc = "idle"
  /\ Len(lines) < MaxCalls
  /\ EnterRunSimulation(TapeSource(rng.tape))
  /\ UNCHANGED <<genVars, seedVars, pickVars, meanVars, settings, result, lines, uiVars>>

CollectLine ==
  /\ pc = "returned"
  /\ lines' = Append(lines, result)
  /\ pc' = "idle"
  /\ UNCHANGED <<genVars, seedVars, pickVars, meanVars, settings, rng, sess, result, uiVars>>

NextSession ==
  \/ CallRunSimulation
  \/ simulateSlotSpin
  \/ simulateSlotReturn
  \/ simulateRouletteSpin
  \/ simulateRouletteReturn
  \/ CollectLine

SpecSession == InitSession /\ [][NextSession]_vars

(***************************************************************************)
(* Spec: the page.  The UI handlers change settings, runCount and baseSeed;*)
(* every change makes the simulationData memo recompute the whole batch    *)
(* before the next handler can run (one synchronous render).               *)
(***************************************************************************)
\* The sliders are tried at their lowest position and at the highest of the model.
SpinInputs == {1, MaxSpins}

BetSizeInputs == {1, MaxBet}

\* Slider positions tried, one below the range that the handler clamps.
SliderInputs == {-1, 0, 1, 67}

\* A value of randomSeed(): the seed of the second run of the baseline batch.
ReseedInputs == { NumAdd(BASELINE_SEED, NumOfInt(SEED_STEP)) }

Init ==
  /\ RngIdle /\ SeedIdle /\ PickIdle /\ MeanIdle
  /\ settings = defaultSettings
  /\ rng = TapeSource(<<>>)
  /\ sess = NoSess
  /\ pc = "stale"
  /\ result = NoLine
  /\ lines = <<>>
  /\ runCount = 1
  /\ baseSeed = BASELINE_SEED
  /\ loop = NoLoop
  /\ simulationData = NoData
  /\ allRuns = <<>>
  /\ prevRuns = <<>>
  /\ dataKey = <<>>

UiFrame == UNCHANGED <<genVars, seedVars, pickVars, meanVars, rng, sess, result, lines, loop, simulationData,
                       allRuns, prevRuns, dataKey>>

\* Faulty variant: the new settings are spread from the previous ones, so that the
\* field of the other game stays.
handleMachineChangeSpread(nextMachine) ==
  /\ pc = "done"
  /\ IF nextMachine = settings.machine
     THEN UNCHANGED <<settings, pc>>
     ELSE /\ settings' =
               [spins |-> settings.spins, betSize |-> settings.betSize, machine |-> nextMachine,
                profile |-> IF settings.machine = "slot" THEN settings.profile ELSE "balanced",
                bet |-> IF settings.machine = "roulette" THEN settings.bet ELSE "singleNumber"]
          /\ pc' = "stale"
  /\ UNCHANGED <<runCount, baseSeed>>
  /\ UiFrame

handleMachineChange(nextMachine) ==
  /\ pc = "done"
  /\ IF nextMachine = settings.machine
     THEN UNCHANGED <<settings, pc>>
     ELSE /\ settings' =
               IF nextMachine = "slot"
               THEN [spins |-> settings.spins, betSize |-> settings.betSize, machine |-> "slot",
                     profile |-> IF settings.machine = "slot" THEN settings.profile
                                 ELSE "balanced"]
               ELSE [spins |-> settings.spins, betSize |-> settings.betSize,
                     machine |-> "roulette",
                     bet |-> IF settings.machine = "roulette" THEN settings.bet
                             ELSE "singleNumber"]
          /\ pc' = "stale"
  /\ UNCHANGED <<runCount, baseSeed>>
  /\ UiFrame

updateSpins(value) ==
  /\ pc = "done"
  /\ settings' = [settings EXCEPT !.spins = value]
  /\ pc' = "stale"
  /\ UNCHANGED <<runCount, baseSeed>>
  /\ UiFrame

updateBetSize(value) ==
  /\ pc = "done"
  /\ settings' = [settings EXCEPT !.betSize = value]
  /\ pc' = "stale"
  /\ UNCHANGED <<runCount, baseSeed>>
  /\ UiFrame

updateSlotProfile(profile) ==
  /\ pc = "done"
  /\ IF settings.machine # "slot"
     THEN UNCHANGED <<settings, pc>>
     ELSE /\ settings' = [settings EXCEPT !.profile = profile]
          /\ pc' = "stale"
  /\ UNCHANGED <<runCount, baseSeed>>
  /\ UiFrame

updateRouletteBet(bet) ==
  /\ pc = "done"
  /\ IF settings.machine # "roulette"
     THEN UNCHANGED <<settings, pc>>
     ELSE /\ settings' = [settings EXCEPT !.bet = bet]
          /\ pc' = "stale"
  /\ UNCHANGED <<runCount, baseSeed>>
  /\ UiFrame

\* A state setter given the value already held does not trigger a render.
SetRunAndSeed(nextRunCount, nextSeed) ==
  /\ runCount' = nextRunCount
  /\ baseSeed' = nextSeed
  /\ pc' = IF nextRunCount = runCount /\ nextSeed = baseSeed THEN "done" ELSE "stale"

\* Batches of more than one run are tried for sessions of at most MaxSpins spins.
handleSetRunCount(sliderValue) ==
  /\ pc = "done"
  /\ settings.spins <= MaxSpins
  /\ SetRunAndSeed(sliderRunValues[Max(0, Min(SLIDER_STEPS, sliderValue)) + 1], baseSeed)
  /\ UNCHANGED settings
  /\ UiFrame

handleReroll(seed) ==
  /\ pc = "done"
  /\ SetRunAndSeed(runCount, seed)
  /\ UNCHANGED settings
  /\ UiFrame

handleRemoveAll ==
  /\ pc = "done"
  /\ SetRunAndSeed(1, BASELINE_SEED)
  /\ UNCHANGED settings
  /\ UiFrame

\* Faulty variant: the run count is used as it is, without the lower limit of 1.
BatchStartUnclamped ==
  /\ pc = "stale"
  /\ loop' = [totalRuns |-> runCount,
              accumulator |-> [i \in 1 .. settings.spins + 1 |-> 0],
              displayRuns |-> <<>>,
              aggregateFinalNet |-> 0,
              tailFinalSum |-> 0,
              tailWinSpins |-> 0,
              tailLossSpins |-> 0,
              index |-> 0]
  /\ pc' = "loop"
  /\ allRuns' = <<>>
  /\ simulationData' = NoData
  /\ prevRuns' = <<>>
  /\ dataKey' = <<settings, baseSeed>>
  /\ UNCHANGED <<genVars, seedVars, pickVars, meanVars, settings, rng, sess, result, lines, runCount, baseSeed>>

\* Faulty variant: the total of the value computed before is carried into the
\* new computation.
BatchStartPatched ==
  /\ pc = "stale"
  /\ loop' = [totalRuns |-> Max(runCount, 1),
              accumulator |-> [i \in 1 .. settings.spins + 1 |-> 0],
              displayRuns |-> <<>>,
              aggregateFinalNet |-> simulationData.totalFinal,
              tailFinalSum |-> 0,
              tailWinSpins |-> 0,
              tailLossSpins |-> 0,
              index |-> 0]
  /\ pc' = "loop"
  /\ allRuns' = <<>>
  /\ simulationData' = NoData
  /\ prevRuns' = IF dataKey = <<settings, baseSeed>> /\ simulationData.totalRuns < Max(runCount, 1)
                 THEN simulationData.displayRuns ELSE <<>>
  /\ dataKey' = <<settings, baseSeed>>
  /\ UNCHANGED <<genVars, seedVars, pickVars, meanVars, settings, rng, sess, result, lines, runCount, baseSeed>>

\* The locals of the memo before its loop; the value computed before is dropped.
BatchStart ==
  /\ pc = "stale"
  /\ loop' = [totalRuns |-> Max(runCount, 1),
              accumulator |-> [i \in 1 .. settings.spins + 1 |-> 0],
              displayRuns |-> <<>>,
              aggregateFinalNet |-> 0,
              tailFinalSum |-> 0,
              tailWinSpins |-> 0,
              tailLossSpins |-> 0,
              index |-> 0]
  /\ pc' = "loop"
  /\ allRuns' = <<>>
  /\ simulationData' = NoData
  /\ prevRuns' = IF dataKey = <<settings, baseSeed>> /\ simulationData.totalRuns < Max(runCount, 1)
                 THEN simulationData.displayRuns ELSE <<>>
  /\ dataKey' = <<settings, baseSeed>>
  /\ UNCHANGED <<genVars, seedVars, pickVars, meanVars, settings, rng, sess, result, lines, runCount, baseSeed>>

\* Faulty variant: one generator is created once and used by every run after it.
RunCallShared ==
  /\ pc = "loop"
  /\ loop.index < loop.totalRuns
  /\ EnterRunSimulation(IF rng.kind = "seeded" THEN rng
                        ELSE SeededSource(seedForIndex(baseSeed, loop.index)))
  /\ UNCHANGED <<genVars, seedVars, pickVars, meanVars, settings, result, lines, uiVars>>

\* seed = seedForIndex(baseSeed, index); rng = createSeededRandom(seed);
\* runSimulation(settings, rng)
RunCall ==
  /\ pc = "loop"
  /\ loop.index < loop.totalRuns
  /\ EnterRunSimulation(SeededSource(seedForIndex(baseSeed, loop.index)))
  /\ UNCHANGED <<genVars, seedVars, pickVars, meanVars, settings, result, lines, uiVars>>

DisplayRun(index, line) ==
  [id |-> index + 1, color |-> colorForIndex(index), points |-> line.points,
   summary |-> line.summary]

\* Faulty variant: the total is added to only for the displayed runs.
FoldRunDisplayedTotal(l, line) ==
  [totalRuns |-> l.totalRuns,
   accumulator |-> [i \in DOMAIN l.accumulator |->
                      IF i <= Len(line.points) THEN l.accumulator[i] + line.points[i]
                      ELSE l.accumulator[i]],
   displayRuns |-> IF l.index < MAX_DISPLAY_RUNS
                   THEN Append(l.displayRuns, DisplayRun(l.index, line))
                   ELSE l.displayRuns,
   aggregateFinalNet |-> IF l.index < MAX_DISPLAY_RUNS
                         THEN l.aggregateFinalNet + line.summary.finalNet
                         ELSE l.aggregateFinalNet,
   tailFinalSum |-> IF l.index < MAX_DISPLAY_RUNS THEN l.tailFinalSum
                    ELSE l.tailFinalSum + line.summary.finalNet,
   tailWinSpins |-> IF l.index < MAX_DISPLAY_RUNS THEN l.tailWinSpins
                    ELSE l.tailWinSpins + line.summary.totalWinSpins,
   tailLossSpins |-> IF l.index < MAX_DISPLAY_RUNS THEN l.tailLossSpins
                     ELSE l.tailLossSpins + line.summary.totalLosingSpins,
   index |-> l.index + 1]

\* Faulty variant: the display cap is compared with <= instead of <.
FoldRunOffByOne(l, line) ==
  [totalRuns |-> l.totalRuns,
   accumulator |-> [i \in DOMAIN l.accumulator |->
                      IF i <= Len(line.points) THEN l.accumulator[i] + line.points[i]
                      ELSE l.accumulator[i]],
   displayRuns |-> IF l.index <= MAX_DISPLAY_RUNS
                   THEN Append(l.displayRuns, DisplayRun(l.index, line))
                   ELSE l.displayRuns,
   aggregateFinalNet |-> l.aggregateFinalNet + line.summary.finalNet,
   tailFinalSum |-> IF l.index <= MAX_DISPLAY_RUNS THEN l.tailFinalSum
                    ELSE l.tailFinalSum + line.summary.finalNet,
   tailWinSpins |-> IF l.index <= MAX_DISPLAY_RUNS THEN l.tailWinSpins
                    ELSE l.tailWinSpins + line.summary.totalWinSpins,
   tailLossSpins |-> IF l.index <= MAX_DISPLAY_RUNS THEN l.tailLossSpins
                     ELSE l.tailLossSpins + line.summary.totalLosingSpins,
   index |-> l.index + 1]

\* The rest of one iteration of the loop, from the returned line; the session's
\* locals and the returned line end with the iteration.
FoldRun(l, line) ==
  [totalRuns |-> l.totalRuns,
   accumulator |-> [i \in DOMAIN l.accumulator |->
                      IF i <= Len(line.points) THEN l.accumulator[i] + line.points[i]
                      ELSE l.accumulator[i]],
   displayRuns |-> IF l.index < MAX_DISPLAY_RUNS
                   THEN Append(l.displayRuns, DisplayRun(l.index, line))
                   ELSE l.displayRuns,
   aggregateFinalNet |-> l.aggregateFinalNet + line.summary.finalNet,
   tailFinalSum |-> IF l.index < MAX_DISPLAY_RUNS THEN l.tailFinalSum
                    ELSE l.tailFinalSum + line.summary.finalNet,
   tailWinSpins |-> IF l.index < MAX_DISPLAY_RUNS THEN l.tailWinSpins
                    ELSE l.tailWinSpins + line.summary.totalWinSpins,
   tailLossSpins |-> IF l.index < MAX_DISPLAY_RUNS THEN l.tailLossSpins
                     ELSE l.tailLossSpins + line.summary.totalLosingSpins,
   index |-> l.index + 1]

BatchFold ==
  /\ pc = "returned"
  /\ loop' = FoldRun(loop, result)
  /\ allRuns' = Append(allRuns, result)
  /\ pc' = "loop"
  /\ sess' = NoSess
  /\ result' = NoLine
  /\ UNCHANGED <<genVars, seedVars, pickVars, meanVars, settings, rng, lines, runCount, baseSeed, simulationData,
                 prevRuns, dataKey>>

TailSummary(l, additionalCount, spins) ==
  IF additionalCount > 0
  THEN << [count |-> additionalCount,
           totalFinal |-> l.tailFinalSum,
           winRate |-> RateOrZero(l.tailWinSpins, additionalCount * spins),
           lossRate |-> RateOrZero(l.tailLossSpins, additionalCount * spins)] >>
  ELSE <<>>

\* Faulty variant: the sums are divided by the number of displayed runs.
MemoValueByDisplayed(l, spins) ==
  [displayRuns |-> l.displayRuns,
   meanLine |-> IF l.totalRuns > 0
                THEN [i \in DOMAIN l.accumulator |-> Quot(l.accumulator[i], Len(l.displayRuns))]
                ELSE [i \in 1 .. spins + 1 |-> Quot(0, 1)],
   tailSummary |-> TailSummary(l,
                               IF l.totalRuns > Len(l.displayRuns)
                               THEN l.totalRuns - Len(l.displayRuns) ELSE 0,
                               spins),
   totalRuns |-> l.totalRuns,
   totalFinal |-> l.aggregateFinalNet]

\* What the memo returns after its loop; tailSummary is <<>> for null.
MemoValue(l, spins) ==
  [displayRuns |-> l.displayRuns,
   meanLine |-> IF l.totalRuns > 0
                THEN [i \in DOMAIN l.accumulator |-> Quot(l.accumulator[i], l.totalRuns)]
                ELSE [i \in 1 .. spins + 1 |-> Quot(0, 1)],
   tailSummary |-> TailSummary(l,
                               IF l.totalRuns > Len(l.displayRuns)
                               THEN l.totalRuns - Len(l.displayRuns) ELSE 0,
                               spins),
   totalRuns |-> l.totalRuns,
   totalFinal |-> l.aggregateFinalNet]

BatchFinish ==
  /\ pc = "loop"
  /\ ~(loop.index < loop.totalRuns)
  /\ simulationData' = MemoValue(loop, settings.spins)
  /\ pc' = "done"
  /\ loop' = NoLoop
  /\ UNCHANGED <<genVars, seedVars, pickVars, meanVars, settings, rng, sess, result, lines, runCount, baseSeed,
                 allRuns, prevRuns, dataKey>>

Next ==
  \/ \E nextMachine \in {"slot", "roulette"} : handleMachineChange(nextMachine)
  \/ \E value \in SpinInputs : updateSpins(value)
  \/ \E value \in BetSizeInputs : updateBetSize(value)
  \/ \E profile \in SlotProfileInputs : updateSlotProfile(profile)
  \/ \E bet \in RouletteBetInputs : updateRouletteBet(bet)
  \/ \E sliderValue \in SliderInputs : handleSetRunCount(sliderValue)
  \/ \E seed \in ReseedInputs : handleReroll(seed)
  \/ handleRemoveAll
  \/ BatchStart
  \/ RunCall
  \/ simulateSlotSpin
  \/ simulateSlotReturn
  \/ simulateRouletteSpin
  \/ simulateRouletteReturn
  \/ BatchFold
  \/ BatchFinish

Spec == Init /\ [][Next]_vars

(***************************************************************************)
(* SpecMemo: the simulationData computation as a function of its inputs,   *)
(* for any settings runSimulation accepts (spins = 0 included) and run     *)
(* counts on both sides of the display cap; run counts of at most 1 are    *)
(* tried with base seeds inside and outside 0 .. 2^32 - 1.                 *)
(***************************************************************************)
RunCountInputs == {2, MAX_DISPLAY_RUNS + 2}

LowCountInputs == {-1, 0, 1}

\* The baseline, -1, 2^32 + 5 and 2^32 - 1.
MemoSeedInputs == { BASELINE_SEED, <<-1, 65535>>, <<65536, 5>>, <<65535, 65535>> }

InitMemo ==
  /\ RngIdle /\ SeedIdle /\ PickIdle /\ MeanIdle
  /\ settings \in SettingsInputs
  /\ rng = TapeSource(<<>>)
  /\ sess = NoSess
  /\ pc = "stale"
  /\ result = NoLine
  /\ lines = <<>>
  /\ \/ runCount \in RunCountInputs /\ baseSeed = BASELINE_SEED
     \/ runCount \in LowCountInputs /\ baseSeed \in MemoSeedInputs
  /\ loop = NoLoop
  /\ simulationData = NoData
  /\ allRuns = <<>>
  /\ prevRuns = <<>>
  /\ dataKey = <<>>

NextMemo ==
  \/ BatchStart
  \/ RunCall
  \/ simulateSlotSpin
  \/ simulateSlotReturn
  \/ simulateRouletteSpin
  \/ simulateRouletteReturn
  \/ BatchFold
  \/ BatchFinish

SpecMemo == InitMemo /\ [][NextMemo]_vars

(***************************************************************************)
(* SpecMean: calculateMeanLine called on lines of any lengths, the empty   *)
(* list and empty trajectories included.                                   *)
(***************************************************************************)
PointInputs == {-3, 4}

RECURSIVE PointsUpTo(_)
\* The trajectories of at most n values.
PointsUpTo(n) ==
  IF n = 0 THEN {<<>>}
  ELSE PointsUpTo(n - 1) \cup { Append(q, v) : q \in PointsUpTo(n - 1), v \in PointInputs }

\* A line with the trajectory points; calculateMeanLine does not read the summary.
LineOf(points) ==
  [points |-> points,
   summary |-> [totalWinSpins |-> 0, totalLosingSpins |-> 0,
                finalNet |-> IF points = <<>> THEN 0 ELSE points[Len(points)]]]

InitMean ==
  /\ RngIdle /\ SeedIdle /\ PickIdle /\ SessIdle /\ UiIdle
  /\ mean = NoMean

\* The caller collects one more line.
GiveLine(points) ==
  /\ ~mean.called
  /\ Len(mean.lines) < MaxCalls
  /\ mean' = [mean EXCEPT !.lines = Append(@, LineOf(points))]
  /\ UNCHANGED <<genVars, seedVars, pickVars, sessVars, uiVars>>

CallMeanLine ==
  /\ ~mean.called
  /\ mean' = [mean EXCEPT !.called = TRUE, !.returned = calculateMeanLine(mean.lines)]
  /\ UNCHANGED <<genVars, seedVars, pickVars, sessVars, uiVars>>

NextMean ==
  \/ \E points \in PointsUpTo(MaxSpins + 1) : GiveLine(points)
  \/ CallMeanLine

SpecMean == InitMean /\ [][NextMean]_vars

(***************************************************************************)
(* Properties.                                                             *)
(***************************************************************************)
LastOf(q) == q[Len(q)]

RECURSIVE ColumnRange(_, _, _, _)
\* The sum of the trajectory values at step i over runs lo..hi.
ColumnRange(runs, i, lo, hi) ==
  IF lo > hi THEN 0
  ELSE IF lo = hi THEN runs[lo].points[i]
  ELSE ColumnRange(runs, i, lo, (lo + hi) \div 2)
       + ColumnRange(runs, i, ((lo + hi) \div 2) + 1, hi)

RECURSIVE FinalRange(_, _, _)
\* The sum of finalNet over runs lo..hi.
FinalRange(runs, lo, hi) ==
  IF lo > hi THEN 0
  ELSE IF lo = hi THEN runs[lo].summary.finalNet
  ELSE FinalRange(runs, lo, (lo + hi) \div 2) + FinalRange(runs, ((lo + hi) \div 2) + 1, hi)

TailCount(data) == IF data.tailSummary = <<>> THEN 0 ELSE data.tailSummary[1].count

TailFinal(data) == IF data.tailSummary = <<>> THEN 0 ELSE data.tailSummary[1].totalFinal

\* C1: whatever the settings (either game, any catalog profile or bet, any bet
\* size, spins = k >= 0) and the values of the random source, the trajectory
\* runSimulation returns has exactly k + 1 points and starts at 0.
C1_TrajectoryLength ==
  pc = "returned" =>
    /\ Len(result.points) = settings.spins + 1
    /\ result.points[1] = 0

C1_Witness ==
  /\ pc = "returned"
  /\ settings.spins = 2
  /\ Len(result.points) = 3
  /\ result.points[3] # 0

\* C2: after every spin wins + losses is the number of spins done, net is the last
\* point, peak >= 0, trough <= 0 and peak >= trough; the returned summary has
\* totalWinSpins + totalLosingSpins = spins, finalNet the last point, peak >= 0,
\* trough <= 0 and peak >= trough.
C2_SummaryConsistent ==
  /\ pc \in {"slot", "roulette"} =>
       /\ sess.winSpins + sess.loseSpins = sess.i
       /\ sess.net = LastOf(sess.points)
       /\ sess.peak >= 0
       /\ sess.trough <= 0
       /\ sess.peak >= sess.trough
  /\ pc = "returned" =>
       /\ result.summary.totalWinSpins + result.summary.totalLosingSpins = settings.spins
       /\ result.summary.finalNet = LastOf(result.points)
       /\ result.summary.peak >= 0
       /\ result.summary.trough <= 0
       /\ result.summary.peak >= result.summary.trough

C2_Witness ==
  /\ pc = "returned"
  /\ settings.machine = "slot"
  /\ settings.spins = 2
  /\ result.summary.totalWinSpins = 1
  /\ result.summary.totalLosingSpins = 1
  /\ result.summary.peak > 0
  /\ result.summary.trough < 0

\* C3: two generators created with the same seed return the same values in the
\* same order, however their calls are interleaved with each other's.
C3_GeneratorsAgree ==
  \A g \in GenIds, h \in GenIds :
    (gens[g].calls >= 0 /\ gens[h].calls >= 0 /\ genSeed[g] = genSeed[h]) =>
      \A n \in 1 .. Min(Len(outs[g]), Len(outs[h])) : outs[g][n] = outs[h][n]

C3_Witness ==
  /\ gens[1].calls = 3
  /\ gens[2].calls = 2
  /\ genSeed[1] = genSeed[2]
  /\ Len(outs[1]) = 3
  /\ Len(outs[2]) = 2

\* C4: every value a generator returns is at least 0 and below 1: its numerator
\* over 2^32 is at least 0 and below 2^32.
C4_DrawInRange ==
  \A g \in GenIds : \A n \in 1 .. Len(outs[g]) :
    /\ NumLeq(<<0, 0>>, outs[g][n])
    /\ ~NumLeq(<<Half, 0>>, outs[g][n])

C4_Witness ==
  /\ genSeed[1] = <<0, 0>>
  /\ Len(outs[1]) = 3
  /\ genSeed[2] = <<0, 1>>
  /\ Len(outs[2]) >= 1
  /\ outs[2][1][1] >= 32768

\* C5: calls of runSimulation with the same settings and a random source that
\* returns the same values return the same trajectory and the same summary.
C5_RunsAgree ==
  \A a \in 1 .. Len(lines), b \in 1 .. Len(lines) : lines[a] = lines[b]

C5_Witness ==
  /\ Len(lines) = 2
  /\ settings.spins = 2
  /\ lines[1].summary.finalNet # 0
  /\ lines[2].summary.peak > 0

\* C6: the seed of run index i is (baseSeed + i * 9973) mod 2^32: it lies in
\* 0 .. 2^32 - 1 and differs from baseSeed + i * 9973 by a multiple of 2^32.
C6_SeedDerivation ==
  /\ NumLeq(<<0, 0>>, seedCalc.seed)
  /\ ~NumLeq(<<Half, 0>>, seedCalc.seed)
  /\ \E q \in -1 .. 1 :
       NumAdd(seedCalc.seed, <<q * Half, 0>>)
         = NumAdd(seedCalc.base, NumOfInt(seedCalc.index * 9973))

C6_Witness ==
  /\ seedCalc.base = <<65535, 65535>>
  /\ seedCalc.index = 3
  /\ seedCalc.seed = <<0, 29918>>

\* C7: every run of a batch starts from a generator of its own, created from the
\* seed of its index, and the displayed runs of a batch are a prefix of those of a
\* larger batch with the same settings and base seed.
C7_RunsReproducible ==
  /\ pc \in {"slot", "roulette", "returned"} =>
       /\ rng.kind = "seeded"
       /\ rng.gen.calls = sess.i
       /\ rng.gen.t = WideAdd(WideOf(seedForIndex(baseSeed, loop.index)),
                              <<sess.i * Increment[1], sess.i * Increment[2]>>)
  /\ \A i \in 1 .. Min(Len(prevRuns), Len(loop.displayRuns)) :
       loop.displayRuns[i] = prevRuns[i]
  /\ pc = "done" =>
       \A i \in 1 .. Min(Len(prevRuns), Len(simulationData.displayRuns)) :
         simulationData.displayRuns[i] = prevRuns[i]

C7_Witness ==
  /\ pc = "done"
  /\ runCount = 102
  /\ Len(prevRuns) = 2
  /\ Len(simulationData.displayRuns) = 100

\* C8: the mean line of a batch of R runs has spins + 1 entries, and its entry
\* at step i is the sum over all R runs of the trajectory value at step i,
\* divided by R.
C8_MeanLine ==
  pc = "done" =>
    /\ Len(allRuns) = Max(runCount, 1)
    /\ Len(simulationData.meanLine) = settings.spins + 1
    /\ \A i \in 1 .. settings.spins + 1 :
         /\ simulationData.meanLine[i].den > 0
         /\ simulationData.meanLine[i].num * Max(runCount, 1)
              = simulationData.meanLine[i].den * ColumnRange(allRuns, i, 1, Len(allRuns))

C8_Witness ==
  /\ pc = "done"
  /\ runCount = 102
  /\ simulationData.meanLine[settings.spins + 1].den > 1
  /\ simulationData.meanLine[settings.spins + 1].num # 0

\* C9: totalFinal of a batch is the sum of finalNet over all its runs, and is the
\* sum over the displayed runs plus the tail's totalFinal (0 without a tail).
C9_TotalFinal ==
  pc = "done" =>
    /\ simulationData.totalFinal = FinalRange(allRuns, 1, Len(allRuns))
    /\ simulationData.totalFinal
         = FinalRange(simulationData.displayRuns, 1, Len(simulationData.displayRuns))
           + TailFinal(simulationData)

C9_Witness ==
  /\ pc = "done"
  /\ simulationData.tailSummary # <<>>
  /\ TailFinal(simulationData) # 0
  /\ simulationData.totalFinal # TailFinal(simulationData)

\* C10: of a batch of R runs the first min(R, 100) are displayed, in index order
\* and with their trajectory and summary; the runs from index 100 on go to the
\* tail only; the tail exists iff R > 100, counts R - 100 runs, and displayed
\* count + tail count = R.
C10_DisplayCap ==
  pc = "done" =>
    /\ Len(allRuns) = Max(runCount, 1)
    /\ Len(simulationData.displayRuns) = Min(Max(runCount, 1), 100)
    /\ \A i \in 1 .. Len(simulationData.displayRuns) :
         /\ simulationData.displayRuns[i].id = i
         /\ simulationData.displayRuns[i].points = allRuns[i].points
         /\ simulationData.displayRuns[i].summary = allRuns[i].summary
    /\ (simulationData.tailSummary # <<>>) <=> (Max(runCount, 1) > 100)
    /\ Max(runCount, 1) > 100 => TailCount(simulationData) = Max(runCount, 1) - 100
    /\ TailFinal(simulationData) = FinalRange(allRuns, 101, Len(allRuns))
    /\ Len(simulationData.displayRuns) + TailCount(simulationData) = Max(runCount, 1)

C10_Witness ==
  /\ pc = "done"
  /\ Len(simulationData.displayRuns) = 100
  /\ TailCount(simulationData) = 2
  /\ Len(allRuns) = 102

RECURSIVE CumulativeTo(_, _)
\* The sum of the probabilities (numerators) of the first k entries of a table.
CumulativeTo(outcomes, k) ==
  IF k = 0 THEN 0 ELSE CumulativeTo(outcomes, k - 1) + outcomes[k].probability.num

\* The entries of a table whose cumulative probability is at least the draw.
Satisfying(outcomes, roll) ==
  { k \in 1 .. Len(outcomes) :
      RollLeq(roll, CumulativeTo(outcomes, k), outcomes[k].probability.den) }

Lowest(S) == CHOOSE k \in S : \A j \in S : k <= j

\* C12: the sampler returns the multiplier of the first entry, in declaration
\* order, whose cumulative probability is >= the draw; a draw equal to a
\* cumulative boundary selects the earlier entry.
C12_FirstSatisfying ==
  \A n \in 1 .. Len(pick.rolls) :
    Satisfying(pick.outcomes, pick.rolls[n]) # {} =>
      pick.multipliers[n]
        = pick.outcomes[Lowest(Satisfying(pick.outcomes, pick.rolls[n]))].multiplier

C12_Witness ==
  /\ Len(pick.rolls) = 2
  /\ Len(pick.outcomes) = 3
  /\ pick.outcomes[2].probability.num = 250000
  /\ pick.rolls[1] = <<32768, 0>>
  /\ pick.multipliers[1] = 4
  /\ pick.rolls[2] = <<19660, 0>>
  /\ pick.multipliers[2] = 4

\* C13: when no entry's cumulative probability reaches the draw, the sampler
\* returns the multiplier of the last entry of the table; for an empty table
\* it returns 0.
C13_Fallback ==
  \A n \in 1 .. Len(pick.rolls) :
    Satisfying(pick.outcomes, pick.rolls[n]) = {} =>
      pick.multipliers[n]
        = (IF Len(pick.outcomes) = 0 THEN 0 ELSE pick.outcomes[Len(pick.outcomes)].multiplier)

C13_Witness ==
  /\ Len(pick.rolls) = 2
  /\ Len(pick.outcomes) = 3
  /\ pick.outcomes[3].probability.num = 250000
  /\ pick.rolls[1] = <<58982, 0>>
  /\ pick.multipliers[1] = 10
  /\ pick.rolls[2] = <<49152, 1>>
  /\ pick.multipliers[2] = 10

RECURSIVE WinSpinsRange(_, _, _)
\* The sum of totalWinSpins over runs lo..hi.
WinSpinsRange(runs, lo, hi) ==
  IF lo > hi THEN 0
  ELSE IF lo = hi THEN runs[lo].summary.totalWinSpins
  ELSE WinSpinsRange(runs, lo, (lo + hi) \div 2)
       + WinSpinsRange(runs, ((lo + hi) \div 2) + 1, hi)

RECURSIVE LosingSpinsRange(_, _, _)
\* The sum of totalLosingSpins over runs lo..hi.
LosingSpinsRange(runs, lo, hi) ==
  IF lo > hi THEN 0
  ELSE IF lo = hi THEN runs[lo].summary.totalLosingSpins
  ELSE LosingSpinsRange(runs, lo, (lo + hi) \div 2)
       + LosingSpinsRange(runs, ((lo + hi) \div 2) + 1, hi)

\* The fraction rate is the number 100 * count / denominator.
IsRate(rate, count, denominator) ==
  /\ rate.den > 0
  /\ rate.num * denominator = rate.den * 100 * count

\* C11: the tail's winRate is 100 * (win spins of the tail runs) / (tail run count
\* * spins) and its lossRate the same of the losing spins; when spins = 0 both
\* rates are 0, and never NaN or infinite.
C11_TailRates ==
  (pc = "done" /\ simulationData.tailSummary # <<>>) =>
    /\ simulationData.tailSummary[1].winRate.den > 0
    /\ simulationData.tailSummary[1].lossRate.den > 0
    /\ settings.spins = 0 =>
         /\ simulationData.tailSummary[1].winRate = [num |-> 0, den |-> 1]
         /\ simulationData.tailSummary[1].lossRate = [num |-> 0, den |-> 1]
    /\ settings.spins > 0 =>
         /\ IsRate(simulationData.tailSummary[1].winRate,
                   WinSpinsRange(allRuns, MAX_DISPLAY_RUNS + 1, Len(allRuns)),
                   (Len(allRuns) - MAX_DISPLAY_RUNS) * settings.spins)
         /\ IsRate(simulationData.tailSummary[1].lossRate,
                   LosingSpinsRange(allRuns, MAX_DISPLAY_RUNS + 1, Len(allRuns)),
                   (Len(allRuns) - MAX_DISPLAY_RUNS) * settings.spins)

C11_Witness ==
  /\ pc = "done"
  /\ settings.spins = 0
  /\ simulationData.tailSummary # <<>>
  /\ simulationData.tailSummary[1].count = 2
  /\ simulationData.tailSummary[1].winRate = [num |-> 0, den |-> 1]

\* The multiplier of the entry of a table that a draw selects.
Selected(outcomes, roll) ==
  IF Satisfying(outcomes, roll) = {}
  THEN (IF Len(outcomes) = 0 THEN 0 ELSE outcomes[Len(outcomes)].multiplier)
  ELSE outcomes[Lowest(Satisfying(outcomes, roll))].multiplier

\* Twice the multiplier of spin j of the slot session in progress.
SlotMultiplier(j) == Selected(slotProfiles[settings.profile], rng.tape[j])

\* C14: each slot spin samples one multiplier m of the profile's table and
\* changes net by betSize * m - betSize; it is a win spin iff the change is > 0
\* (m > 1), and any other spin, breakeven (m = 1) or partial loss (m = 0.5)
\* included, is a losing spin.
C14_SlotSpin ==
  (/\ settings.machine = "slot"
   /\ settings.profile \in DOMAIN slotProfiles
   /\ pc \in {"slot", "returned"}
   /\ rng.kind = "tape") =>
    /\ rng.calls = sess.i
    /\ \A j \in 1 .. sess.i :
         sess.points[j + 1] - sess.points[j]
           = settings.betSize * SlotMultiplier(j) - 2 * settings.betSize
    /\ sess.winSpins = Cardinality({ j \in 1 .. sess.i : SlotMultiplier(j) > 2 })
    /\ sess.loseSpins = Cardinality({ j \in 1 .. sess.i : SlotMultiplier(j) <= 2 })

C14_Witness ==
  /\ pc = "returned"
  /\ settings = [machine |-> "slot", spins |-> 2, betSize |-> 1, profile |-> "steady"]
  /\ rng.tape = << <<32768, 0>>, <<45875, 0>> >>
  /\ result.points = <<0, -1, -1>>
  /\ result.summary.totalWinSpins = 0
  /\ result.summary.totalLosingSpins = 2

\* Whether spin j of the roulette session in progress wins.
RouletteWins(j) ==
  RollLeq(rng.tape[j], rouletteBets[settings.bet].probability.num,
          rouletteBets[settings.bet].probability.den)

\* C15: each roulette spin takes one draw and wins iff draw <= the bet's
\* probability; a win changes net by betSize * (multiplier - 1) and counts as a win
\* spin, a loss changes net by -betSize and counts as a losing spin.
C15_RouletteSpin ==
  (/\ settings.machine = "roulette"
   /\ settings.bet \in DOMAIN rouletteBets
   /\ pc \in {"roulette", "returned"}
   /\ rng.kind = "tape") =>
    /\ rng.calls = sess.i
    /\ \A j \in 1 .. sess.i :
         sess.points[j + 1] - sess.points[j]
           = (IF RouletteWins(j)
              THEN 2 * settings.betSize * (rouletteBets[settings.bet].multiplier - 1)
              ELSE -(2 * settings.betSize))
    /\ sess.winSpins = Cardinality({ j \in 1 .. sess.i : RouletteWins(j) })
    /\ sess.loseSpins = Cardinality({ j \in 1 .. sess.i : ~RouletteWins(j) })

C15_Witness ==
  /\ pc = "returned"
  /\ settings = [machine |-> "roulette", spins |-> 2, betSize |-> 2, bet |-> "dozen"]
  /\ rng.tape = << <<19660, 0>>, <<32768, 0>> >>
  /\ result.points = <<0, 8, 4>>
  /\ result.summary.totalWinSpins = 1
  /\ result.summary.totalLosingSpins = 1

\* C16: runSimulation called with a profile or bet key that is not in the catalog
\* never returns a trajectory and summary, whatever the other settings are.
C16_UnknownKeyFailsFast ==
  pc = "returned" =>
    (IF settings.machine = "slot"
     THEN settings.profile \in DOMAIN slotProfiles
     ELSE settings.bet \in DOMAIN rouletteBets)

\* C17: the generator's state t is an unsigned 32-bit word in every reachable
\* state: it starts as the seed truncated to 32 bits and never leaves [0, 2^32).
C17_StateIsWord ==
  \A g \in GenIds : gens[g].calls >= 0 => gens[g].t[1] = 0

\* Mulberry32 on unsigned 32-bit words, every operation truncated to 32 bits.
RefXor(a, b) == <<Xor16(a[1], b[1]), Xor16(a[2], b[2])>>

RefOr(a, b) == <<Or16(a[1], b[1]), Or16(a[2], b[2])>>

RefShr(a, n) == ShiftWord(a, Pow2(n))

RefAdd(a, b) == ToUint32(NumAdd(a, b))

RefMul(a, b) ==
  ToUint32(NumAdd(Mul16(a[2], b[2]),
                  <<(Mul16(a[1], b[2])[2] + Mul16(a[2], b[1])[2]) % Half, 0>>))

\* t_k = (seed + k * 0x6d2b79f5) mod 2^32, for k below 2^31.
RefState(seed, k) ==
  RefAdd(ToUint32(seed), RefMul(<<k \div Half, k % Half>>, Increment))

RefFirst(t) == RefMul(RefXor(t, RefShr(t, 15)), RefOr(t, <<0, 1>>))

RefSecond(r) ==
  RefXor(r, RefAdd(r, RefMul(RefXor(r, RefShr(r, 7)), RefOr(r, <<0, 61>>))))

RefLast(r) == RefXor(r, RefShr(r, 14))

RefDraw(seed, k) == RefLast(RefSecond(RefFirst(RefState(seed, k))))

\* C18: for every seed and every call index k >= 1 the k-th draw is the
\* reference Mulberry32 output computed from t_k = (seed + k * 0x6d2b79f5) mod 2^32.
C18_MatchesReference ==
  \A g \in GenIds : \A n \in 1 .. Len(outs[g]) :
    outs[g][n] = RefDraw(genSeed[g], gens[g].calls - Len(outs[g]) + n)

Values(q) == { q[k] : k \in 1 .. Len(q) }

Highest(S) == CHOOSE m \in S : \A x \in S : m >= x

\* C19: in both games, after every spin peak is the maximum and trough the
\* minimum of all trajectory values so far, the leading 0 included; the returned
\* summary has peak = max(points) and trough = min(points).
C19_PeakTrough ==
  /\ pc \in {"slot", "roulette"} =>
       /\ sess.peak = Highest(Values(sess.points))
       /\ sess.trough = Lowest(Values(sess.points))
  /\ pc = "returned" =>
       /\ result.summary.peak = Highest(Values(result.points))
       /\ result.summary.trough = Lowest(Values(result.points))

C19_Witness ==
  /\ pc = "returned"
  /\ settings.spins = 2
  /\ result.summary.peak > result.summary.finalNet
  /\ result.summary.peak = result.points[2]
  /\ result.summary.trough = 0

RECURSIVE Trim(_)
\* A natural in limbs without its leading zero limbs.
Trim(a) == IF a = <<>> THEN <<>>
           ELSE IF a[Len(a)] = 0 THEN Trim(SubSeq(a, 1, Len(a) - 1)) ELSE a

RECURSIVE SquareSumTo(_, _)
\* The sum of the squares of the first k values of q.
SquareSumTo(q, k) ==
  IF k = 0 THEN <<>> ELSE BigAdd(SquareSumTo(q, k - 1), Square(q[k]))

\* num / den is the population variance of the n = Len(points) values of points:
\* (sum of (p - mean)^2) / n = (n * sum of p^2 - (sum of p)^2) / n^2, which in
\* half units q = 2p is (n^2 * sum of q^2 - n * (sum of q)^2) / (4 * n^3).
IsPopulationVariance(v, points, n) ==
  /\ n = Len(points)
  /\ v.den = 4 * n * n * n
  /\ Trim(BigAdd(v.num, BigMulSmall(Square(SumSeq(points)), n, 0)))
       = Trim(BigMulSmall(SquareSumTo(points, n), n * n, 0))

\* C20: the volatility is the population standard deviation of all spins + 1
\* trajectory values, the leading 0 included: its square is the sum of
\* (point - mean)^2 divided by spins + 1, in slot and roulette alike.
C20_Volatility ==
  pc = "returned" =>
    IsPopulationVariance(result.summary.volatility.sqrtOf, result.points, settings.spins + 1)

C20_Witness ==
  /\ pc = "returned"
  /\ settings.machine = "roulette"
  /\ settings.spins = 2
  /\ result.points = <<0, 4, 2>>
  /\ result.summary.volatility.sqrtOf = [num |-> <<72>>, den |-> 108]

\* The draw is greater than the sum of all the table's probabilities.
ExceedsMass(outcomes, roll) ==
  ~RollLeq(roll, CumulativeTo(outcomes, Len(outcomes)), Million)

\* C21 as stated: for every table and every draw greater than the sum of the
\* table's probabilities, the sampled multiplier is the no-payout multiplier 0.
C21_ResidualIsNoPayout ==
  \A n \in 1 .. Len(pick.rolls) :
    ExceedsMass(pick.outcomes, pick.rolls[n]) => pick.multipliers[n] = 0

\* C21, amended: a draw greater than the sum of the table's probabilities is
\* given the multiplier of the table's last entry (0 only for the empty
\* table); every shipped slot table sums to exactly 1, so that no draw in
\* [0, 1] exceeds its sum and every draw on it selects an entry of the walk.
C21_ResidualIsLastEntry ==
  /\ \A n \in 1 .. Len(pick.rolls) :
       ExceedsMass(pick.outcomes, pick.rolls[n]) =>
         pick.multipliers[n]
           = (IF pick.outcomes = <<>> THEN 0
              ELSE pick.outcomes[Len(pick.outcomes)].multiplier)
  /\ \A name \in DOMAIN slotProfiles :
       /\ CumulativeTo(slotProfiles[name], Len(slotProfiles[name])) = Million
       /\ pick.outcomes = slotProfiles[name] =>
            \A n \in 1 .. Len(pick.rolls) :
              /\ ~ExceedsMass(pick.outcomes, pick.rolls[n])
              /\ Satisfying(pick.outcomes, pick.rolls[n]) # {}

C21_Witness ==
  /\ Len(pick.outcomes) = 3
  /\ CumulativeTo(pick.outcomes, 3) = 750000
  /\ Len(pick.rolls) = 2
  /\ ExceedsMass(pick.outcomes, pick.rolls[1])
  /\ pick.multipliers[1] = 10
  /\ pick.rolls[2] = <<49152, 0>>
  /\ ~ExceedsMass(pick.outcomes, pick.rolls[2])
  /\ pick.multipliers[2] = 10

\* The batch aggregate computed from scratch, as a function of settings, runCount
\* and baseSeed alone.  The i-th draw of the generator of a seed:
ScratchDraw(seed, i) ==
  Mulberry(WideAdd(WideOf(seed), <<i * Increment[1], i * Increment[2]>>))

\* The change in net (half units) of a spin decided by the draw roll.
ScratchChange(st, roll) ==
  IF st.machine = "slot"
  THEN st.betSize * Selected(slotProfiles[st.profile], roll) - 2 * st.betSize
  ELSE IF RollLeq(roll, rouletteBets[st.bet].probability.num,
                  rouletteBets[st.bet].probability.den)
       THEN 2 * st.betSize * (rouletteBets[st.bet].multiplier - 1)
       ELSE -(2 * st.betSize)

RECURSIVE ScratchChanges(_, _, _, _)
\* The changes of spins lo..hi of the run of a seed.
ScratchChanges(st, seed, lo, hi) ==
  IF lo > hi THEN <<>>
  ELSE IF lo = hi THEN <<ScratchChange(st, ScratchDraw(seed, lo))>>
  ELSE ScratchChanges(st, seed, lo, (lo + hi) \div 2)
       \o ScratchChanges(st, seed, ((lo + hi) \div 2) + 1, hi)

RaisedBy(a, b) == a \o [k \in 1 .. Len(b) |-> b[k] + a[Len(a)]]

RECURSIVE RunningSums(_, _, _)
\* The sums changes[lo], changes[lo] + changes[lo + 1], ... up to hi.
RunningSums(changes, lo, hi) ==
  IF lo > hi THEN <<>>
  ELSE IF lo = hi THEN <<changes[lo]>>
  ELSE RaisedBy(RunningSums(changes, lo, (lo + hi) \div 2),
                RunningSums(changes, ((lo + hi) \div 2) + 1, hi))

ScratchSummary(changes, points) ==
  [points |-> points,
   summary |-> [totalWinSpins |-> Cardinality({k \in 1 .. Len(changes) : changes[k] > 0}),
                totalLosingSpins |-> Cardinality({k \in 1 .. Len(changes) : ~(changes[k] > 0)}),
                finalNet |-> points[Len(points)],
                peak |-> Highest(Values(points)),
                trough |-> Lowest(Values(points)),
                volatility |-> Volatility(points, SumSeq(points), Len(points))]]

ScratchPoints(changes) == ScratchSummary(changes, <<0>> \o RunningSums(changes, 1, Len(changes)))

ScratchLine(st, seed) == ScratchPoints(ScratchChanges(st, seed, 1, st.spins))

RECURSIVE ScratchRuns(_, _, _, _)
\* The lines of the runs of index lo - 1 .. hi - 1.
ScratchRuns(st, base, lo, hi) ==
  IF lo > hi THEN <<>>
  ELSE IF lo = hi THEN <<ScratchLine(st, seedForIndex(base, lo - 1))>>
  ELSE ScratchRuns(st, base, lo, (lo + hi) \div 2)
       \o ScratchRuns(st, base, ((lo + hi) \div 2) + 1, hi)

ScratchTail(runs, n, spins) ==
  IF n > MAX_DISPLAY_RUNS
  THEN << [count |-> n - MAX_DISPLAY_RUNS,
           totalFinal |-> FinalRange(runs, MAX_DISPLAY_RUNS + 1, n),
           winRate |-> RateOrZero(WinSpinsRange(runs, MAX_DISPLAY_RUNS + 1, n),
                                  (n - MAX_DISPLAY_RUNS) * spins),
           lossRate |-> RateOrZero(LosingSpinsRange(runs, MAX_DISPLAY_RUNS + 1, n),
                                   (n - MAX_DISPLAY_RUNS) * spins)] >>
  ELSE <<>>

ScratchAggregate(runs, n, spins) ==
  [displayRuns |-> [k \in 1 .. Min(n, MAX_DISPLAY_RUNS) |-> DisplayRun(k - 1, runs[k])],
   meanLine |-> [i \in 1 .. spins + 1 |-> Quot(ColumnRange(runs, i, 1, n), n)],
   tailSummary |-> ScratchTail(runs, n, spins),
   totalRuns |-> n,
   totalFinal |-> FinalRange(runs, 1, n)]

ScratchData(st, count, base) ==
  ScratchAggregate(ScratchRuns(st, base, 1, Max(count, 1)), Max(count, 1), st.spins)

\* C22: after any sequence of UI actions the batch aggregate in use (displayRuns,
\* meanLine, tailSummary, totalFinal) is the aggregate computed from scratch from
\* the current settings, runCount and baseSeed; nothing of a batch computed for
\* earlier settings, run count or seed is left in it.
C22_AggregateFromScratch ==
  pc = "done" =>
    /\ simulationData = ScratchData(settings, runCount, baseSeed)
    /\ dataKey = <<settings, baseSeed>>

C22_Witness ==
  /\ pc = "done"
  /\ settings.machine = "roulette"
  /\ settings.bet = "evenMoney"
  /\ settings.spins = 2
  /\ settings.betSize = 2
  /\ runCount = 102
  /\ baseSeed # BASELINE_SEED
  /\ simulationData.totalFinal # 0
  /\ Len(simulationData.displayRuns) = 100

\* C23: for any integer runCount <= 1 (0 and negative values included) exactly
\* one session is run, with the seed baseSeed mod 2^32; there is no tail, and
\* the mean trajectory is that session's trajectory at every step.
C23_ClampedToOne ==
  runCount <= 1 =>
    /\ pc \in {"loop", "slot", "roulette", "returned"} =>
         /\ loop.totalRuns = 1
         /\ loop.index = Len(allRuns)
         /\ loop.index <= 1
    /\ pc \in {"slot", "roulette", "returned"} =>
         /\ loop.index = 0
         /\ allRuns = <<>>
         /\ rng.kind = "seeded"
         /\ rng.gen.calls = sess.i
         /\ \E seed \in {Low32(WideAdd(rng.gen.t, <<-(sess.i * Increment[1]),
                                                     -(sess.i * Increment[2])>>))} :
              /\ rng.gen.t = WideAdd(WideOf(seed), <<sess.i * Increment[1],
                                                      sess.i * Increment[2]>>)
              /\ \E q \in -1 .. 1 : NumAdd(seed, <<q * Half, 0>>) = baseSeed
    /\ pc = "done" =>
         /\ Len(allRuns) = 1
         /\ simulationData.totalRuns = 1
         /\ simulationData.tailSummary = <<>>
         /\ Len(simulationData.displayRuns) = 1
         /\ simulationData.displayRuns[1].points = allRuns[1].points
         /\ Len(simulationData.meanLine) = Len(allRuns[1].points)
         /\ \A i \in 1 .. Len(allRuns[1].points) :
              simulationData.meanLine[i] = [num |-> allRuns[1].points[i], den |-> 1]

C23_Witness ==
  /\ pc = "done"
  /\ runCount = -1
  /\ baseSeed = <<65536, 5>>
  /\ settings.spins = 2
  /\ Len(allRuns) = 1
  /\ allRuns[1].points[2] # 0
  /\ simulationData.meanLine[3] = [num |-> allRuns[1].points[3], den |-> 1]
  /\ simulationData.meanLine[3].num # allRuns[1].points[2]

\* A step that belongs to a call of runSimulation: its entry, an iteration of the
\* loop, its return or its exception.
InRunSimulation == pc \in {"slot", "roulette"} \/ pc' \in {"slot", "roulette"}

\* C24: a call of runSimulation leaves its settings argument unchanged and starts
\* from a points array of its own; no line returned before is altered by a later
\* call; besides its own locals and return value a call changes only the state
\* of the random source it was given.
C24_RunFrame ==
  [][ /\ InRunSimulation =>
           /\ settings' = settings
           /\ lines' = lines
           /\ UNCHANGED <<genVars, seedVars, pickVars, meanVars, uiVars>>
      /\ (pc \notin {"slot", "roulette"} /\ pc' \in {"slot", "roulette"}) =>
           /\ sess'.points = <<0>>
           /\ sess'.net = 0
           /\ Calls(rng') = 0
      /\ \A k \in 1 .. Len(lines) : Len(lines') >= k /\ lines'[k] = lines[k]
      /\ (pc \in {"slot", "roulette"} /\ pc' = "returned") =>
           /\ result'.points = sess.points
           /\ rng' = rng
    ]_vars

C24_Witness ==
  /\ pc = "slot"
  /\ Len(lines) = 1
  /\ Len(lines[1].points) = 3
  /\ lines[1].points[3] # 0
  /\ sess.i = 1
  /\ Len(sess.points) = 2
  /\ Calls(rng) = 1

\* The change a spin makes for the draw roll, for any key the session accepts.
ChangeFor(st, roll) ==
  IF st.machine = "roulette" /\ KeyKind(rouletteBets, st.bet) = "inherited"
  THEN -(2 * st.betSize)
  ELSE ScratchChange(st, roll)

\* C25: a session calls its random source exactly once per spin, in spin order,
\* in both games: after i spins the source has been called i times, after
\* runSimulation with spins = k returns it has been called k times (0 for
\* k = 0), and the outcome of spin i is decided by the i-th value alone.
C25_OneDrawPerSpin ==
  /\ pc \in {"slot", "roulette"} =>
       /\ Calls(rng) = sess.i
       /\ \A i \in 1 .. sess.i :
            sess.points[i + 1] - sess.points[i] = ChangeFor(settings, rng.tape[i])
  /\ pc = "returned" =>
       /\ Calls(rng) = settings.spins
       /\ \A i \in 1 .. settings.spins :
            result.points[i + 1] - result.points[i] = ChangeFor(settings, rng.tape[i])

C25_Witness ==
  /\ pc = "returned"
  /\ settings.machine = "roulette"
  /\ settings.bet = "evenMoney"
  /\ settings.spins = 2
  /\ Calls(rng) = 2
  /\ rng.tape[1] = <<45875, 0>>
  /\ rng.tape[2] = <<19660, 0>>
  /\ result.points[2] < 0
  /\ result.points[3] = 0

\* betSize * ((multiplier - 1) * wins - losses), in half units.
RouletteNet(st, wins, losses) ==
  2 * st.betSize * ((rouletteBets[st.bet].multiplier - 1) * wins - losses)

\* C26: in a roulette session with a catalog bet, after each spin
\* net = betSize * ((multiplier - 1) * wins so far - losses so far), the returned
\* finalNet = betSize * ((multiplier - 1) * totalWinSpins - totalLosingSpins),
\* and each trajectory step is betSize * (multiplier - 1) or -betSize.
C26_RouletteNet ==
  (settings.machine = "roulette" /\ settings.bet \in DOMAIN rouletteBets) =>
    /\ pc = "roulette" =>
         /\ sess.net = RouletteNet(settings, sess.winSpins, sess.loseSpins)
         /\ \A j \in 1 .. sess.i :
              sess.points[j + 1] - sess.points[j]
                \in {RouletteNet(settings, 1, 0), RouletteNet(settings, 0, 1)}
    /\ pc = "returned" =>
         /\ result.summary.finalNet
              = RouletteNet(settings, result.summary.totalWinSpins,
                            result.summary.totalLosingSpins)
         /\ \A j \in 1 .. settings.spins :
              result.points[j + 1] - result.points[j]
                \in {RouletteNet(settings, 1, 0), RouletteNet(settings, 0, 1)}

C26_Witness ==
  /\ pc = "returned"
  /\ settings = [machine |-> "roulette", spins |-> 2, betSize |-> 2, bet |-> "street"]
  /\ result.points = <<0, 44, 40>>
  /\ result.summary.totalWinSpins = 1
  /\ result.summary.totalLosingSpins = 1
  /\ result.summary.finalNet = 40

\* The lines that have an index i.
Having(given, i) == { k \in 1 .. Len(given) : Len(given[k].points) >= i }

RECURSIVE SumOver(_, _, _)
\* The sum of points[i] over the lines of S.
SumOver(given, S, i) ==
  IF S = {} THEN 0
  ELSE given[Lowest(S)].points[i] + SumOver(given, S \ {Lowest(S)}, i)

\* The locals of the batch loop before its first run, for n runs of len points.
BatchLocals(n, len) ==
  [totalRuns |-> n, accumulator |-> [i \in 1 .. len |-> 0], displayRuns |-> <<>>,
   aggregateFinalNet |-> 0, tailFinalSum |-> 0, tailWinSpins |-> 0, tailLossSpins |-> 0,
   index |-> 0]

RECURSIVE FoldLines(_, _, _)
\* The locals of the batch loop after the first k lines.
FoldLines(given, l, k) ==
  IF k = 0 THEN l ELSE FoldRun(FoldLines(given, l, k - 1), given[k])

\* The mean line the batch loop computes from its accumulator for these lines.
AccumulatorMean(given) ==
  MemoValue(FoldLines(given, BatchLocals(Len(given), Len(given[1].points)), Len(given)),
            Len(given[1].points) - 1).meanLine

\* C27: calculateMeanLine returns [] for an empty list of lines; otherwise the
\* result has as many entries as the longest line, and entry i is the mean of
\* points[i] over exactly the lines that have an index i; for lines of equal
\* length it is the mean line the batch loop computes from its accumulator.
C27_MeanLine ==
  mean.called =>
    /\ mean.lines = <<>> => mean.returned = <<>>
    /\ mean.lines # <<>> =>
         /\ Len(mean.returned)
              = Highest({ Len(mean.lines[k].points) : k \in 1 .. Len(mean.lines) })
         /\ \A i \in 1 .. Len(mean.returned) :
              /\ Having(mean.lines, i) # {}
              /\ mean.returned[i].den > 0
              /\ mean.returned[i].num * Cardinality(Having(mean.lines, i))
                   = mean.returned[i].den * SumOver(mean.lines, Having(mean.lines, i), i)
         /\ (\A k \in 1 .. Len(mean.lines) :
               Len(mean.lines[k].points) = Len(mean.lines[1].points)) =>
              mean.returned = AccumulatorMean(mean.lines)

C27_Witness ==
  /\ mean.called
  /\ Len(mean.lines) = 2
  /\ mean.lines[1].points = <<-3, 4, 4>>
  /\ mean.lines[2].points = <<4>>
  /\ mean.returned = << [num |-> 1, den |-> 2], [num |-> 4, den |-> 1], [num |-> 4, den |-> 1] >>

\* A slot variant has a catalog profile and no bet field; a roulette variant has a
\* catalog bet and no profile field.
WellFormed(st) ==
  IF st.machine = "slot"
  THEN /\ DOMAIN st = {"machine", "spins", "betSize", "profile"}
       /\ st.profile \in DOMAIN slotProfiles
  ELSE /\ st.machine = "roulette"
       /\ DOMAIN st = {"machine", "spins", "betSize", "bet"}
       /\ st.bet \in DOMAIN rouletteBets

\* C28: from defaultSettings on and after any sequence of the settings handlers,
\* settings is a well-formed variant; a change of machine keeps spins and betSize;
\* updateSlotProfile under roulette and updateRouletteBet under slot leave
\* settings as they are.
C28_SettingsWellFormed ==
  /\ [] WellFormed(settings)
  /\ [][ /\ settings'.machine # settings.machine =>
              /\ settings'.spins = settings.spins
              /\ settings'.betSize = settings.betSize
         /\ (settings.machine = "roulette"
             /\ \E profile \in SlotProfileInputs : updateSlotProfile(profile)) =>
              settings' = settings
         /\ (settings.machine = "slot"
             /\ \E bet \in RouletteBetInputs : updateRouletteBet(bet)) =>
              settings' = settings
       ]_vars

C28_Witness ==
  /\ pc = "done"
  /\ settings = [machine |-> "roulette", spins |-> 1, betSize |-> 2, bet |-> "evenMoney"]
  /\ dataKey = <<settings, baseSeed>>
====
